---- MODULE Spec2Model ----
(***************************************************************************)
(* A model of the position-lifecycle core of trade-dashboard:              *)
(*   PnLEngine.calculate_fifo_pnl        (src/core/logic.py)               *)
(*   CampaignEngine.identify_campaigns   (src/core/campaign_engine.py)     *)
(*   StrategyEngine._classify_strategy   (src/core/strategy_engine.py)     *)
(*                                                                         *)
(* Conventions.                                                            *)
(*  - Text that the code searches for a substring ('A' in code, 'OPT' in   *)
(*    asset_class) is a sequence of one-character strings; text that the   *)
(*    code joins with or splits on ' ' (symbols, asset keys) is a sequence *)
(*    of space-free words.  None is the word sequence <<"None">>, which is *)
(*    what str(None) renders.                                              *)
(*  - Quantities, prices, commissions and timestamps are integers.  Python *)
(*    floats are modelled by exact arithmetic: every money amount that the *)
(*    code divides by a quantity (comm / abs(qty)) is kept in units of     *)
(*    1/Scale, Scale being a common multiple of every quantity magnitude,  *)
(*    so the division is exact.  Rounding error of binary floating point   *)
(*    is outside the model.                                                *)
(***************************************************************************)
EXTENDS Integers, Sequences, FiniteSets, TLC

\* ------------------------------------------------------------------ bounds
\* Longest execution frame handed to calculate_fifo_pnl.
MaxRows == 3
\* Longest execution frame of the price-and-commission scenarios.
MaxPnlRows == 2
\* Longest execution frame of the repeated-call scenarios.
MaxTwiceRows == 2
\* Rows of a closed-trade frame handed to identify_campaigns.
MaxTrades == 3
\* Rows of a closed-trade frame handed to group_executions_into_strategies.
MaxLegs == 4
\* Longest execution frame with missing cells.
MaxMissingRows == 2
\* Longest execution frame with close codes.
MaxReasonRows == 2
\* Longest execution frame over the instruments of every asset class.
MaxKeyRows == 2
\* Longest cash-transaction frame.
MaxCashRows == 2
\* Longest closed-trade frame with trades on cash-settled index roots.
MaxExclusionTrades == 3
\* Longest execution frame with executions larger than a whole queue.
MaxReversalRows == 3
\* Longest closed-trade frame handed to the strategy summary.
MaxSummaryLegs == 3
\* Longest closed-trade frame handed to the campaign statistics.
MaxStatsTrades == 3
\* Longest closed-trade frame of legs without instrument metadata.
MaxBareLegs == 3
\* Longest execution frame with a symbol that contains a space.
MaxSpaceRows == 2
\* Longest execution frame with tied executions of one key beside another key.
MaxIsolationRows == 4
\* Longest closed-trade frame handed to identify_campaigns twice.
MaxPartitionTrades == 3

\* --------------------------------------------------------------- helpers
Abs(x) == IF x < 0 THEN -x ELSE x

RECURSIVE SumSeq(_)
SumSeq(s) == IF s = <<>> THEN 0 ELSE Head(s) + SumSeq(Tail(s))

RECURSIVE GCD(_, _)
GCD(a, b) == IF b = 0 THEN a ELSE GCD(b, a % b)

LCM(a, b) == (a * b) \div GCD(a, b)

RECURSIVE LCMSet(_)
LCMSet(S) ==
    IF S = {} THEN 1
    ELSE LET x == CHOOSE y \in S : TRUE IN LCM(x, LCMSet(S \ {x}))

\* s[1..n] with the elements satisfying Test(_) kept, in order.
RECURSIVE SelectIdx(_, _)
SelectIdx(s, keep) ==
    IF s = <<>> THEN <<>>
    ELSE LET rest == SelectIdx(Tail(s), [j \in 1..(Len(s) - 1) |-> keep[j + 1]])
         IN IF keep[1] THEN <<Head(s)>> \o rest ELSE rest

\* Python's `sub in text` on sequences of characters.
Contains(text, sub) ==
    \E k \in 0..(Len(text) - Len(sub)) :
        \A j \in 1..Len(sub) : text[k + j] = sub[j]

\* --------------------------------------------------------- value domains
None == <<"None">>
NoNumber == <<>>                \* a NaN / NULL in a numeric column

\* value if value else other   (None and '' are falsy)
Truthy(v) == v # None /\ v # <<>>

STK == <<"S", "T", "K">>
OPT == <<"O", "P", "T">>
FOP == <<"F", "O", "P">>

\* str(x) of a float column's value, as one word.
FloatStr(x) ==
    IF x = NoNumber THEN "nan"
    ELSE CASE x[1] = 150 -> "150.0"
           [] x[1] = 155 -> "155.0"
           [] OTHER      -> "0.0"

\* str(x) of a text column's value, as one word.
WordStr(x) == IF x = <<>> THEN "" ELSE x[1]

\* Rendering of a reduced fraction num/den (a float quotient kept exact).
Frac(num, den) ==
    LET g == GCD(Abs(num), Abs(den))
    IN IF g = 0 THEN <<num, den>> ELSE <<num \div g, den \div g>>

\* --------------------------------------------------------------- sorting
\* DataFrame.sort_values(by=...) as the permutation it applies to the row
\* positions.  keys[k] is the integer sort key of row k.  The call passes no
\* `kind`, so pandas sorts with its default quicksort, which does not promise
\* to keep rows with equal keys in their arrival order: "stable" is the
\* outcome that keeps arrival order, "unstable" an outcome that does not (ties
\* come out in reverse arrival order).  Which of the two a build produces is
\* fixed for the build (sort_kind), so sorting one frame twice gives one result.
SortKinds == {"stable", "unstable"}

SortedBefore(keys, kind, a, b) ==
    \/ keys[a] < keys[b]
    \/ /\ keys[a] = keys[b]
       /\ IF kind = "stable" THEN a < b ELSE a > b

SortOrder(keys, kind) ==
    LET n == Len(keys)
        Rank(k) == Cardinality({j \in 1..n : SortedBefore(keys, kind, j, k)}) + 1
    IN [r \in 1..n |-> CHOOSE k \in 1..n : Rank(k) = r]

\* A missing timestamp.  pandas keeps NaT as the least int64; the timestamps
\* of the model are naturals.
NaT == -1

\* Mutant: the frame is processed in arrival order.
ArrivalOrder(df, kind) == df

\* trades_df.sort_values(by='trade_date'): the rows that have a timestamp are
\* sorted, the rows without one follow them (na_position='last') in arrival
\* order.
SortValuesByTradeDate(df, kind) ==
    LET dated == SelectIdx(df, [k \in 1..Len(df) |-> df[k].trade_date # NaT])
        undated == SelectIdx(df, [k \in 1..Len(df) |-> df[k].trade_date = NaT])
        order == SortOrder([k \in 1..Len(dated) |-> dated[k].trade_date], kind)
    IN [r \in 1..Len(dated) |-> dated[order[r]]] \o undated

\* ------------------------------------------------- PnLEngine: row values
\* row.get('underlying') if row.get('underlying') else row.get('symbol')
RootSymbol(row) == IF Truthy(row.underlying) THEN row.underlying ELSE row.symbol

generate_asset_key(row) ==
    IF Contains(row.asset_class, OPT) \/ Contains(row.asset_class, FOP)
    THEN RootSymbol(row)
         \o <<WordStr(row.expiry), FloatStr(row.strike), WordStr(row.put_call)>>
    ELSE RootSymbol(row)

\* str(...).upper() on the side indicators of the model.
Upper(side) ==
    CASE side = "sell" -> "SELL"
      [] side = "sld"  -> "SLD"
      [] side = "buy"  -> "BUY"
      [] OTHER         -> side

\* qty after `if str(row['buy_sell']).upper() in ['SELL', 'SLD'] and qty > 0`
SignedQty(row) ==
    IF Upper(row.buy_sell) \in {"SELL", "SLD"} /\ row.quantity > 0
    THEN -row.quantity
    ELSE row.quantity

\* float(row['multiplier']) if row.get('multiplier') and notna(...) else 1.0
Multiplier(row) ==
    IF row.multiplier # NoNumber /\ row.multiplier[1] # 0
    THEN row.multiplier[1]
    ELSE 1

\* close_reason of lines 72-81, from the closing execution alone.
CloseReason(code, meta_asset_class, price) ==
    IF Contains(code, <<"A">>) THEN "Assigned"
    ELSE IF Contains(code, <<"E", "x">>) THEN "Exercised"
    ELSE IF Contains(code, <<"E", "p">>) THEN "Expired"
    ELSE IF Contains(meta_asset_class, OPT) /\ price = 0 THEN "Expired"
    ELSE "Trade"

\* Mutant: every unit carries the whole commission of its execution.
CommPerUnitWhole(comm, qty, scale) == comm * scale

\* comm / abs(qty) if qty != 0 else 0.0, in units of 1/Scale.
CommPerUnit(comm, qty, scale) ==
    IF qty # 0 THEN (comm * scale) \div Abs(qty) ELSE 0

\* float(row['commission']) of a NULL cell is nan.  row.nulls names the
\* columns of the row whose cell is NULL; the number kept beside a NULL cell
\* or a nan result is 0 and means nothing.
\* current_comm_per_unit is nan: nan / abs(qty), but 0.0 when qty is 0.
CommPerUnitIsNaN(row, qty) == "commission" \in row.nulls /\ qty # 0

\* total_comm is nan: a product with a nan per-unit commission, of the lot
\* or of the closing execution.
TotalCommIsNaN(lot, row, qty) ==
    "comm_per_unit" \in lot.nan \/ CommPerUnitIsNaN(row, qty)

\* net_pnl = gross_pnl + total_comm   (lines 91 and 115)
NetPnl(gross_pnl, total_comm) == gross_pnl + total_comm

\* Mutant: the sign of the lot is left out of gross_pnl.
GrossPnlNoDirection(price, lot, matched_q, scale) ==
    (price - lot.price) * Abs(matched_q) * lot.mult * scale

\* direction = 1 if matched_q > 0 else -1
\* gross_pnl = (price - lot['price']) * abs(matched_q) * lot['mult'] * direction
\* (lines 87-88 and 112-113), in units of 1/scale.
GrossPnl(price, lot, matched_q, scale) ==
    LET direction == IF matched_q > 0 THEN 1 ELSE -1
    IN (price - lot.price) * Abs(matched_q) * lot.mult * direction * scale

\* The locals of one pass through the body of the matching loop, in either
\* branch (lines 88-107 and 112-131): the ClosedTrade appended, and beside it
\* the values the ClosedTrade does not keep (the lot as it was, matched_q,
\* direction, gross_pnl), for the properties that speak of them.
MatchEvent(lot, matched_q, row, qty, scale) ==
    LET price == row.price
        current_comm_per_unit == CommPerUnit(row.commission, qty, scale)
        direction == IF matched_q > 0 THEN 1 ELSE -1
        gross_pnl == GrossPnl(price, lot, matched_q, scale)
        comm_nan == TotalCommIsNaN(lot, row, qty)
        total_comm == IF comm_nan THEN 0
                      ELSE (Abs(matched_q) * lot.comm_per_unit)
                           + (Abs(matched_q) * current_comm_per_unit)
        net_pnl == IF comm_nan THEN 0 ELSE NetPnl(gross_pnl, total_comm)
    IN [trade |-> [root_symbol  |-> RootSymbol(row),
                   asset_id     |-> generate_asset_key(row),
                   quantity     |-> Abs(matched_q),
                   entry_date   |-> lot.date,
                   close_date   |-> row.trade_date,
                   commission   |-> total_comm,
                   net_pnl      |-> net_pnl,
                   close_reason |-> CloseReason(row.code, row.asset_class, price),
                   asset_class  |-> row.asset_class,
                   put_call     |-> row.put_call,
                   strike       |-> row.strike,
                   expiry       |-> row.expiry,
                   nan          |-> IF comm_nan THEN {"commission", "net_pnl"}
                                    ELSE {}],
        lot        |-> lot,
        matched_q  |-> matched_q,
        exec_qty   |-> qty,
        exit_price |-> price,
        exit_comm  |-> row.commission,
        direction  |-> direction,
        gross_pnl  |-> gross_pnl]

\* Mutant: the comparison of the two magnitudes is turned round.
ConsumesLotTurned(remaining_qty, lot) == Abs(remaining_qty) <= Abs(lot.qty)

\* Which branch the loop body takes: the head lot is consumed whole.
ConsumesLot(remaining_qty, lot) == Abs(remaining_qty) >= Abs(lot.qty)

\* Mutant: the loop body runs once at most (`if` for `while`).
MatchLoopOnce(inventory, remaining_qty, row, qty, scale, events) ==
    IF remaining_qty = 0 \/ inventory = <<>>
    THEN [inventory |-> inventory, remaining_qty |-> remaining_qty, events |-> events]
    ELSE LET lot == Head(inventory)
         IN IF ConsumesLot(remaining_qty, lot)
            THEN [inventory |-> Tail(inventory),
                  remaining_qty |-> remaining_qty + lot.qty,
                  events |-> Append(events, MatchEvent(lot, lot.qty, row, qty, scale))]
            ELSE [inventory |-> <<[lot EXCEPT !.qty = lot.qty + remaining_qty]>>
                                   \o Tail(inventory),
                  remaining_qty |-> 0,
                  events |-> Append(events,
                                    MatchEvent(lot, -remaining_qty, row, qty, scale))]

\* while remaining_qty != 0 and inventory: ...            (lines 68-132)
RECURSIVE MatchLoop(_, _, _, _, _, _)
MatchLoop(inventory, remaining_qty, row, qty, scale, events) ==
    IF remaining_qty = 0 \/ inventory = <<>>
    THEN [inventory |-> inventory, remaining_qty |-> remaining_qty, events |-> events]
    ELSE LET lot == Head(inventory)
         IN IF ConsumesLot(remaining_qty, lot)
            THEN LET matched_q == lot.qty
                 IN MatchLoop(Tail(inventory), remaining_qty + matched_q, row, qty, scale,
                              Append(events, MatchEvent(lot, matched_q, row, qty, scale)))
            ELSE LET matched_q == -remaining_qty
                     reduced == [lot EXCEPT !.qty = lot.qty - matched_q]
                 IN MatchLoop(<<reduced>> \o Tail(inventory), 0, row, qty, scale,
                              Append(events, MatchEvent(lot, matched_q, row, qty, scale)))

\* Mutant: the lot opened by a reversal takes the execution's whole quantity
\* instead of the unmatched remainder.
NewLotWholeQty(lot_qty, row, qty, scale) ==
    [qty           |-> qty,
     price         |-> row.price,
     date          |-> row.trade_date,
     mult          |-> Multiplier(row),
     comm_per_unit |-> CommPerUnit(row.commission, qty, scale),
     nan           |-> IF CommPerUnitIsNaN(row, qty) THEN {"comm_per_unit"} ELSE {}]

\* The lot an execution opens (lines 62-65 and 134-137).
NewLot(lot_qty, row, qty, scale) ==
    [qty           |-> lot_qty,
     price         |-> row.price,
     date          |-> row.trade_date,
     mult          |-> Multiplier(row),
     comm_per_unit |-> CommPerUnit(row.commission, qty, scale),
     nan           |-> IF CommPerUnitIsNaN(row, qty) THEN {"comm_per_unit"} ELSE {}]

\* Mutant: a lot is opened on an empty inventory only.
OpensLotEmptyOnly(inventory, qty) == inventory = <<>>

\* if not inventory or (inventory[0]['qty'] > 0 and qty > 0) or (... < 0 ...)
OpensLot(inventory, qty) ==
    \/ inventory = <<>>
    \/ Head(inventory).qty > 0 /\ qty > 0
    \/ Head(inventory).qty < 0 /\ qty < 0

\* Mutant: what is left of the execution when the queue is used up is dropped.
ApplyRowDropsRemainder(inventory, row, scale) ==
    LET qty == SignedQty(row)
    IN IF OpensLot(inventory, qty)
       THEN [inventory |-> Append(inventory, NewLot(qty, row, qty, scale)),
             events    |-> <<>>]
       ELSE LET m == MatchLoop(inventory, qty, row, qty, scale, <<>>)
            IN [inventory |-> m.inventory, events |-> m.events]

\* Mutant: an opened lot is put at the head of the queue (appendleft).
ApplyRowAppendLeft(inventory, row, scale) ==
    LET qty == SignedQty(row)
    IN IF OpensLot(inventory, qty)
       THEN [inventory |-> <<NewLot(qty, row, qty, scale)>> \o inventory,
             events    |-> <<>>]
       ELSE LET m == MatchLoop(inventory, qty, row, qty, scale, <<>>)
            IN [inventory |-> IF m.remaining_qty # 0
                              THEN Append(m.inventory,
                                          NewLot(m.remaining_qty, row, qty, scale))
                              ELSE m.inventory,
                events    |-> m.events]

\* One row against its key's inventory (lines 61-137): the inventory after
\* it and the match events it emits.
ApplyRow(inventory, row, scale) ==
    LET qty == SignedQty(row)
    IN IF OpensLot(inventory, qty)
       THEN [inventory |-> Append(inventory, NewLot(qty, row, qty, scale)),
             events    |-> <<>>]
       ELSE LET m == MatchLoop(inventory, qty, row, qty, scale, <<>>)
            IN [inventory |-> IF m.remaining_qty # 0
                              THEN Append(m.inventory,
                                          NewLot(m.remaining_qty, row, qty, scale))
                              ELSE m.inventory,
                events    |-> m.events]

\* ------------------------------------------ PnLEngine: the portfolio dict
\* portfolio is a dict in insertion order: a sequence of [asset_id, lots].
HasKey(pf, key) == \E k \in 1..Len(pf) : pf[k].asset_id = key

KeyIndex(pf, key) == CHOOSE k \in 1..Len(pf) : pf[k].asset_id = key

Inventory(pf, key) == IF HasKey(pf, key) THEN pf[KeyIndex(pf, key)].lots ELSE <<>>

\* if asset_key not in portfolio: portfolio[asset_key] = deque()
WithKey(pf, key) ==
    IF HasKey(pf, key) THEN pf ELSE Append(pf, [asset_id |-> key, lots |-> <<>>])

SetInventory(pf, key, lots) ==
    LET q == WithKey(pf, key)
    IN [q EXCEPT ![KeyIndex(q, key)].lots = lots]

\* Mutant: the average price weighs the lot prices by the signed quantities.
OpenPositionSignedWeights(entry) ==
    LET lots == entry.lots
        total_qty == SumSeq([k \in 1..Len(lots) |-> lots[k].qty])
        weighted == SumSeq([k \in 1..Len(lots) |-> lots[k].price * lots[k].qty])
    IN [root_symbol |-> <<Head(entry.asset_id)>>,
        asset_id    |-> entry.asset_id,
        quantity    |-> total_qty,
        avg_price   |-> Frac(weighted, Abs(total_qty))]

\* Part 3 (lines 161-172): one OpenPosition per key whose net quantity is
\* not flat.  abs(total_qty) > 0.00001 on integers is total_qty # 0.
OpenPosition(entry) ==
    LET lots == entry.lots
        total_qty == SumSeq([k \in 1..Len(lots) |-> lots[k].qty])
        weighted == SumSeq([k \in 1..Len(lots) |-> lots[k].price * Abs(lots[k].qty)])
    IN [root_symbol |-> <<Head(entry.asset_id)>>,
        asset_id    |-> entry.asset_id,
        quantity    |-> total_qty,
        avg_price   |-> Frac(weighted, Abs(total_qty))]

NetQty(lots) == SumSeq([k \in 1..Len(lots) |-> lots[k].qty])

IsOpen(entry) == Abs(NetQty(entry.lots)) > 0

OpenPositions(pf) ==
    LET all == [k \in 1..Len(pf) |-> OpenPosition(pf[k])]
    IN SelectIdx(all, [k \in 1..Len(pf) |-> IsOpen(pf[k])])

\* Part 2 (lines 140-158): the pseudo-trade of one dividend row.
DivTypes == {"Dividends", "PaymentInLieuOfDividends", "WithholdingTax"}

DividendTrade(row) ==
    [root_symbol  |-> row.symbol,
     asset_id     |-> <<"DIVIDEND">>,
     quantity     |-> 0,
     entry_date   |-> row.date,
     close_date   |-> row.date,
     commission   |-> 0,
     net_pnl      |-> row.amount,
     close_reason |-> row.type,
     asset_class  |-> <<"C", "A", "S", "H">>,
     put_call     |-> None,
     strike       |-> None,
     expiry       |-> None,
     nan          |-> {}]

DividendTrades(cash) ==
    LET all == [k \in 1..Len(cash) |-> DividendTrade(cash[k])]
    IN SelectIdx(all, [k \in 1..Len(cash) |-> cash[k].type \in DivTypes])

\* ------------------------------------------------------- input domains
AAPL == [symbol |-> <<"AAPL">>, underlying |-> None, asset_class |-> STK,
         expiry |-> None, strike |-> NoNumber, put_call |-> None]

AAPL_C150 == [symbol |-> <<"AAPL240119C00150000">>, underlying |-> <<"AAPL">>,
              asset_class |-> OPT, expiry |-> <<"20240119">>, strike |-> <<150>>,
              put_call |-> <<"C">>]

Execution(inst, side, quantity, price, commission, multiplier, trade_date, code) ==
    [symbol |-> inst.symbol, underlying |-> inst.underlying,
     asset_class |-> inst.asset_class, expiry |-> inst.expiry,
     strike |-> inst.strike, put_call |-> inst.put_call,
     buy_sell |-> side, quantity |-> quantity, price |-> price,
     commission |-> commission, multiplier |-> multiplier,
     trade_date |-> trade_date, code |-> code, nulls |-> {}]

\* Every frame of at most n rows drawn from S.
Frames(S, n) == UNION {[1..m -> S] : m \in 0..n}

\* The quantity magnitudes of the model, and the unit (1/Scale) of its money.
Magnitudes == {1, 2}
ExampleMagnitudes == {60, 100}
Scale == LCMSet(Magnitudes \cup ExampleMagnitudes)

\* Executions for the matching order: two keys on one root, buys and sells of
\* zero, one and two units on two dates; buys fill at 10 and sells at 12.
FifoOrders == ({"BUY"} \X (Magnitudes \cup {0})) \cup ({"SELL"} \X Magnitudes)

FifoRows ==
    {Execution(inst, o[1], o[2], IF o[1] = "BUY" THEN 10 ELSE 12, 0, NoNumber, d, <<>>) :
        inst \in {AAPL, AAPL_C150}, o \in FifoOrders, d \in 1..2}

\* Executions for prices and commissions: one option contract, buys and sells
\* of one and two units at 10 or 12, commission 0 or 1 (a cost, given as a
\* non-negative amount), multiplier missing or 100, on two dates.
PnlRows ==
    {Execution(AAPL_C150, side, q, p, c, m, d, <<>>) :
        side \in {"BUY", "SELL"}, q \in Magnitudes, p \in {10, 12}, c \in {0, 1},
        m \in {NoNumber, <<100>>}, d \in 1..2}

\* The executions of the spec's two worked scenarios, on the stock: buy 100 at
\* 10, then sell 100 at 12 or sell 60 at 12, each with commission 1.
ExBuy100 == Execution(AAPL, "BUY", 100, 10, 1, NoNumber, 1, <<>>)
ExSell100 == Execution(AAPL, "SELL", 100, 12, 1, NoNumber, 2, <<>>)
ExSell60 == Execution(AAPL, "SELL", 60, 12, 1, NoNumber, 2, <<>>)
ExampleRows == {ExBuy100, ExSell100, ExSell60}

\* Executions for repeated calls: buys and sells of one unit of the stock on
\* two dates.
TwiceRows ==
    {Execution(AAPL, side, 1, IF side = "BUY" THEN 10 ELSE 12, 0, NoNumber, d, <<>>) :
        side \in {"BUY", "SELL"}, d \in 1..2}

\* ------------------------------------------------------------------ state
VARIABLES
    pc,             \* where calculate_fifo_pnl stands: "call", "rows", "done"
    caller_df,      \* the caller's execution frame (argument trades_df)
    cash_df,        \* the caller's cash-transaction frame (<<>>: None or empty)
    sort_kind,      \* the tie order of the build's quicksort
    trades_df,      \* the local trades_df: the sorted copy
    i,              \* position of iterrows() in trades_df
    portfolio,      \* the local dict asset_key -> deque of lots
    closed_trades,  \* the local list closed_trades
    matches,        \* history: the locals of every match event, in order
    closed_df,      \* first returned frame
    open_df,        \* second returned frame
    earlier_call,   \* history: <<>>, or <<[trades, cash, closed, open]>> of one
                    \* call that has returned before the current one
    uuids           \* how many values uuid.uuid4() has handed out so far

\* CampaignEngine.identify_campaigns
VARIABLES
    camp_pc,          \* where identify_campaigns stands: "idle" (not called),
                      \* "call", "groups", "scan", "done"
    closed_trades_df, \* the argument closed_trades_df
    camp_df,          \* the local df: filtered, sorted, with column campaign_id
    group_keys,       \* the keys df.groupby('root_symbol') has still to yield
    group,            \* the local group: the index labels of its rows, sorted
    pos,              \* position of group.iterrows() in group
    current_camp_id,  \* the local current_camp_id
    camp_end,         \* the local camp_end
    camp_end_reason,  \* the local camp_end_reason
    campaigns_df,     \* the returned frame
    earlier_campaigns,\* history: <<>>, or <<[trades, campaigns]>> of one call
                      \* that has returned before the current one
    stats_ids,        \* aggregate_campaign_stats: the campaign ids the loop
                      \* over groupby('campaign_id') has still to yield
    stats,            \* aggregate_campaign_stats: the local list stats
    stats_df          \* aggregate_campaign_stats: the returned frame

fifo_vars == <<pc, caller_df, cash_df, trades_df, i, portfolio,
               closed_trades, matches, closed_df, open_df, earlier_call>>

\* StrategyEngine.group_executions_into_strategies
VARIABLES
    strat_pc,            \* where the call stands: "idle" (not called), "call",
                         \* "rows", "done"
    legs_df,             \* the argument trades_df
    strat_df,            \* the local df: sorted, with strategy_id, strategy_type
    strat_i,             \* position of df.iterrows() in df
    current_strategy_id, \* the local current_strategy_id
    prev_row,            \* the local prev_row (<<>>: None, else <<row>>)
    strategy_buffer,     \* the local strategy_buffer: index labels
    strategies_df,       \* the returned frame
    metrics              \* what aggregate_strategy_pnl returns for it

strategy_vars == <<strat_pc, legs_df, strat_df, strat_i, current_strategy_id,
                   prev_row, strategy_buffer, strategies_df, metrics>>

campaign_vars == <<camp_pc, closed_trades_df, camp_df, group_keys, group, pos,
                   current_camp_id, camp_end, camp_end_reason, campaigns_df,
                   earlier_campaigns, stats_ids, stats, stats_df>>

\* IBKRFlexClient.download_report
VARIABLES
    dl_pc,      \* where download_report stands: "idle" (not called),
                \* "request", "sleep", "done"
    attempt,    \* the loop variable attempt
    gets,       \* history: how many times requests.get has been called
    response,   \* <<>>, or <<r>>: the outcome r of the last requests.get
    report      \* the returned value

download_vars == <<dl_pc, attempt, gets, response, report>>

vars == <<sort_kind, uuids, fifo_vars, campaign_vars, strategy_vars,
          download_vars>>

\* download_report has not been called.
DownloadIdle ==
    /\ dl_pc = "idle"
    /\ attempt = 0
    /\ gets = 0
    /\ response = <<>>
    /\ report = None

\* identify_campaigns has not been called.
CampaignIdle ==
    /\ camp_pc = "idle"
    /\ closed_trades_df = <<>>
    /\ camp_df = <<>>
    /\ group_keys = <<>>
    /\ group = <<>>
    /\ pos = 0
    /\ current_camp_id = None
    /\ camp_end = 0
    /\ camp_end_reason = ""
    /\ campaigns_df = <<>>
    /\ earlier_campaigns = <<>>
    /\ stats_ids = {}
    /\ stats = <<>>
    /\ stats_df = <<>>

\* group_executions_into_strategies has not been called.
StrategyIdle ==
    /\ strat_pc = "idle"
    /\ legs_df = <<>>
    /\ strat_df = <<>>
    /\ strat_i = 0
    /\ current_strategy_id = None
    /\ prev_row = <<>>
    /\ strategy_buffer = <<>>
    /\ strategies_df = <<>>
    /\ metrics = <<>>

\* The state a call starts from: nothing of an earlier call is visible.
Entry(df, cash) ==
    /\ pc = "call"
    /\ caller_df = df
    /\ cash_df = cash
    /\ trades_df = <<>>
    /\ i = 0
    /\ portfolio = <<>>
    /\ closed_trades = <<>>
    /\ matches = <<>>
    /\ closed_df = <<>>
    /\ open_df = <<>>

Init ==
    /\ sort_kind \in SortKinds
    /\ uuids = 0
    /\ DownloadIdle
    /\ CampaignIdle
    /\ StrategyIdle
    /\ earlier_call = <<>>
    /\ \E df \in Frames(FifoRows, MaxRows) : Entry(df, <<>>)

InitPnl ==
    /\ sort_kind \in SortKinds
    /\ uuids = 0
    /\ DownloadIdle
    /\ CampaignIdle
    /\ StrategyIdle
    /\ earlier_call = <<>>
    /\ \E df \in Frames(PnlRows \cup ExampleRows, MaxPnlRows) : Entry(df, <<>>)

InitTwice ==
    /\ sort_kind \in SortKinds
    /\ uuids = 0
    /\ DownloadIdle
    /\ CampaignIdle
    /\ StrategyIdle
    /\ earlier_call = <<>>
    /\ \E df \in Frames(TwiceRows, MaxTwiceRows) : Entry(df, <<>>)

\* ---------------------------------------------------------------- actions
Return(closed, open) ==
    /\ closed_df' = closed
    /\ open_df' = open
    /\ pc' = "done"

\* if trades_df.empty: return pd.DataFrame(), pd.DataFrame()   (lines 24-25)
ReturnEmpty ==
    /\ pc = "call"
    /\ caller_df = <<>>
    /\ Return(<<>>, <<>>)
    /\ UNCHANGED <<caller_df, cash_df, sort_kind, trades_df, i, portfolio,
                   closed_trades, matches, earlier_call, uuids, campaign_vars,
                   strategy_vars,
                   download_vars>>

\* Mutant: closed_trades and portfolio are not created afresh by the call (as
\* when they are attributes of the class).
SortValuesKeepsState ==
    /\ pc = "call"
    /\ caller_df # <<>>
    /\ trades_df' = SortValuesByTradeDate(caller_df, sort_kind)
    /\ matches' = <<>>
    /\ i' = 1
    /\ pc' = "rows"
    /\ UNCHANGED <<caller_df, cash_df, sort_kind, closed_df, open_df, earlier_call,
                   closed_trades, portfolio, uuids, campaign_vars,
                   strategy_vars,
                   download_vars>>

\* trades_df = trades_df.sort_values(by='trade_date'); closed_trades = [];
\* portfolio = {}                                              (lines 27-29)
SortValues ==
    /\ pc = "call"
    /\ caller_df # <<>>
    /\ trades_df' = SortValuesByTradeDate(caller_df, sort_kind)
    /\ closed_trades' = <<>>
    /\ matches' = <<>>
    /\ portfolio' = <<>>
    /\ i' = 1
    /\ pc' = "rows"
    /\ UNCHANGED <<caller_df, cash_df, sort_kind, closed_df, open_df, earlier_call,
                   uuids, campaign_vars,
                   strategy_vars,
                   download_vars>>

\* One pass of `for _, row in trades_df.iterrows()`            (lines 32-137)
ProcessRow ==
    /\ pc = "rows"
    /\ i <= Len(trades_df)
    /\ LET row == trades_df[i]
           asset_key == generate_asset_key(row)
           r == ApplyRow(Inventory(portfolio, asset_key), row, Scale)
       IN /\ portfolio' = SetInventory(portfolio, asset_key, r.inventory)
          /\ closed_trades' =
                closed_trades \o [k \in 1..Len(r.events) |-> r.events[k].trade]
          /\ matches' = matches \o r.events
    /\ i' = i + 1
    /\ UNCHANGED <<pc, caller_df, cash_df, sort_kind, trades_df, closed_df,
                   open_df, earlier_call, uuids, campaign_vars,
                   strategy_vars,
                   download_vars>>

\* Parts 2 and 3 and the return                               (lines 139-174)
Finish ==
    /\ pc = "rows"
    /\ i > Len(trades_df)
    /\ closed_trades' = closed_trades \o DividendTrades(cash_df)
    /\ Return(closed_trades', OpenPositions(portfolio))
    /\ UNCHANGED <<caller_df, cash_df, sort_kind, trades_df, i, portfolio, matches,
                   earlier_call, uuids, campaign_vars,
                   strategy_vars,
                   download_vars>>

Next == ReturnEmpty \/ SortValues \/ ProcessRow \/ Finish

\* The caller calls calculate_fifo_pnl again, with any frame; the call that
\* has just returned may be the one remembered in earlier_call.  Nothing but
\* the argument changes: what the last call left behind is still there.
Reinvoke ==
    /\ pc = "done"
    /\ \E df \in Frames(TwiceRows, MaxTwiceRows) : caller_df' = df
    /\ earlier_call' \in {earlier_call,
                          <<[trades |-> caller_df, cash |-> cash_df,
                             closed |-> closed_df, open |-> open_df]>>}
    /\ pc' = "call"
    /\ UNCHANGED <<cash_df, sort_kind, trades_df, i, portfolio, closed_trades,
                   matches, closed_df, open_df, uuids, campaign_vars,
                   strategy_vars,
                   download_vars>>

NextTwice == Next \/ Reinvoke

Spec == Init /\ [][Next]_vars

SpecPnl == InitPnl /\ [][Next]_vars

SpecTwice == InitTwice /\ [][NextTwice]_vars

\* ===================================================== the FIFO properties
Keys(df) == {generate_asset_key(df[k]) : k \in 1..Len(df)}

\* The ClosedTrades of one key, in emission order.
TradesOf(trades, key) ==
    SelectIdx(trades, [k \in 1..Len(trades) |-> trades[k].asset_id = key])

NonDecreasing(s) == \A a, b \in 1..Len(s) : a < b => s[a] <= s[b]

\* The match events the step appends, and the key the step works on.
StepEvents == SubSeq(matches', Len(matches) + 1, Len(matches'))
StepKey == generate_asset_key(trades_df[i])
IsRowStep == pc = "rows" /\ i <= Len(trades_df) /\ i' = i + 1

\* C1, entry order: per key, the ClosedTrades in emission order have
\* non-decreasing entry timestamps, and every inventory holds its lots in
\* opening order.
C1_EntryOrder ==
    /\ \A key \in Keys(caller_df) :
          LET t == TradesOf(closed_trades, key)
          IN NonDecreasing([k \in 1..Len(t) |-> t[k].entry_date])
    /\ \A e \in 1..Len(portfolio) :
          NonDecreasing([k \in 1..Len(portfolio[e].lots) |-> portfolio[e].lots[k].date])

\* C1, head first: the n lots an execution is matched against are the first n
\* lots of its key's queue, in queue order; every one but the last is consumed
\* whole; the queue keeps the lots behind them, in order, behind what is left
\* of the n-th; and a lot the execution opens goes to the tail.
C1_HeadFirst ==
    IsRowStep =>
        LET old == Inventory(portfolio, StepKey)
            new == Inventory(portfolio', StepKey)
            ev == StepEvents
            n == Len(ev)
            rest == SubSeq(old, n + 1, Len(old))
        IN /\ n <= Len(old)
           /\ \A j \in 1..n : ev[j].lot = old[j]
           /\ \A j \in 1..(n - 1) : ev[j].matched_q = old[j].qty
           /\ \/ new = rest
              \/ Len(new) = Len(rest) + 1 /\ SubSeq(new, 1, Len(rest)) = rest
              \/ /\ n > 0
                 /\ Len(new) = Len(rest) + 1
                 /\ SubSeq(new, 2, Len(new)) = rest
                 /\ new[1] = [old[n] EXCEPT !.qty = old[n].qty - ev[n].matched_q]

\* C1 (FIFO order): for every key and every execution sequence the ClosedTrades
\* of the key, in emission order, have non-decreasing entry timestamps, and a
\* lot opened earlier at a key is consumed whole before a later-opened lot of
\* the key is matched.
C1_FifoOrder == [](C1_EntryOrder) /\ [][C1_HeadFirst]_vars

\* C1 witness: one execution has closed two lots of a key that were opened at
\* different times.
C1_Witness ==
    \E a, b \in 1..Len(closed_trades) :
        /\ a < b
        /\ closed_trades[a].asset_id = closed_trades[b].asset_id
        /\ closed_trades[a].close_date = closed_trades[b].close_date
        /\ closed_trades[a].entry_date < closed_trades[b].entry_date

\* The rows of a frame that belong to one key.
RowsOf(df, key) ==
    SelectIdx(df, [k \in 1..Len(df) |-> generate_asset_key(df[k]) = key])

SignedSum(df) == SumSeq([k \in 1..Len(df) |-> SignedQty(df[k])])
AbsSum(df) == SumSeq([k \in 1..Len(df) |-> Abs(SignedQty(df[k]))])
ClosedQty(trades) == SumSeq([k \in 1..Len(trades) |-> trades[k].quantity])

\* The net quantity the returned OpenPositions report for a key (0: none).
OpenQty(open, key) ==
    SumSeq([k \in 1..Len(open) |->
                IF open[k].asset_id = key THEN open[k].quantity ELSE 0])

\* C2 (quantity conservation): after match, for every key the net open
\* quantity equals the sum of the signed quantities of the key's executions,
\* and the sum of |quantity| over those executions equals twice the sum of the
\* key's ClosedTrade quantities plus |net open quantity|.
C2_QuantityConservation ==
    pc = "done" =>
        \A key \in Keys(caller_df) :
            LET rows == RowsOf(caller_df, key)
                net == OpenQty(open_df, key)
            IN /\ net = SignedSum(rows)
               /\ AbsSum(rows) = 2 * ClosedQty(TradesOf(closed_df, key)) + Abs(net)

\* C2 witness: a finished match in which one key has both ClosedTrades and an
\* OpenPosition left by a reversal, beside a second key.
C2_Witness ==
    /\ pc = "done"
    /\ Cardinality(Keys(caller_df)) = 2
    /\ \E key \in Keys(caller_df) :
          /\ ClosedQty(TradesOf(closed_df, key)) > 0
          /\ OpenQty(open_df, key) < 0
          /\ \E k \in 1..Len(caller_df) : SignedQty(caller_df[k]) > 0

\* C9 (same-sign inventory), as claimed: after every execution all lots of one
\* key's inventory are long or all are short, and an execution that reverses
\* the exposure leaves exactly one lot, of the opposite sign.
AllLong(lots) == \A k \in 1..Len(lots) : lots[k].qty > 0
AllShort(lots) == \A k \in 1..Len(lots) : lots[k].qty < 0

C9_SameSign_Claimed ==
    \A e \in 1..Len(portfolio) : AllLong(portfolio[e].lots) \/ AllShort(portfolio[e].lots)

\* C10 (zero-quantity executions are skipped), as claimed: no inventory ever
\* holds a lot opened by a zero-quantity execution and no ClosedTrade is ever
\* emitted for a match of quantity 0.
C10_ZeroSkipped_Claimed ==
    /\ \A e \in 1..Len(portfolio) :
          \A k \in 1..Len(portfolio[e].lots) : portfolio[e].lots[k].qty # 0
    /\ \A k \in 1..Len(closed_trades) : closed_trades[k].quantity # 0

\* ============================================ the P&L properties (SpecPnl)
\* C3 (commission sign), as claimed: for every ClosedTrade produced by a
\* match, long or short, the allocated commission is matched quantity x entry
\* per-unit commission + matched quantity x exit per-unit commission, net P&L
\* is gross P&L minus that commission, and a positive commission lowers net P&L.
C3_CommissionSign_Claimed ==
    \A k \in 1..Len(matches) :
        LET e == matches[k]
            t == e.trade
            entry_comm == Abs(e.matched_q) * e.lot.comm_per_unit
            exit_comm == Abs(e.matched_q) * CommPerUnit(e.exit_comm, e.exec_qty, Scale)
        IN /\ t.commission = entry_comm + exit_comm
           /\ t.net_pnl = e.gross_pnl - t.commission
           /\ t.commission > 0 => t.net_pnl < e.gross_pnl

\* A frame of exactly two executions: a buy of q at p1 with commission c1 and,
\* strictly later, a sell of the same q at p2 with commission c2.
IsRoundTrip(df) ==
    /\ Len(df) = 2
    /\ \E b, s \in 1..2 :
          /\ df[b].buy_sell = "BUY" /\ df[s].buy_sell = "SELL"
          /\ df[b].quantity = df[s].quantity
          /\ df[b].trade_date < df[s].trade_date

BuyOf(df) == df[CHOOSE k \in 1..2 : df[k].buy_sell = "BUY"]
SellOf(df) == df[CHOOSE k \in 1..2 : df[k].buy_sell = "SELL"]

\* C4 (full round trip), as claimed: buy q at p1 (commission c1), later sell q
\* at p2 (commission c2), nothing else at the key, multiplier m: exactly one
\* ClosedTrade, of quantity q and net P&L (p2 - p1)*q*m - (c1 + c2), and no
\* OpenPosition.
C4_RoundTrip_Claimed ==
    (pc = "done" /\ IsRoundTrip(caller_df)) =>
        LET b == BuyOf(caller_df)
            s == SellOf(caller_df)
        IN /\ Len(closed_df) = 1
           /\ closed_df[1].quantity = b.quantity
           /\ closed_df[1].net_pnl =
                 ((s.price - b.price) * b.quantity * Multiplier(b)
                  - (b.commission + s.commission)) * Scale
           /\ open_df = <<>>

\* C5, the step: a closing execution smaller than the head lot emits exactly
\* one ClosedTrade, for the execution's quantity and with the lot's entry
\* timestamp, and leaves the head lot in place with its magnitude reduced by
\* that quantity and everything else of it (entry price, entry timestamp,
\* multiplier, per-unit commission) and of the lots behind it as it was.
C5_PartialStep ==
    IsRowStep =>
        LET qty == SignedQty(trades_df[i])
            old == Inventory(portfolio, StepKey)
            new == Inventory(portfolio', StepKey)
            closes == old # <<>> /\ qty # 0 /\ ~OpensLot(old, qty)
        IN (closes /\ Abs(qty) < Abs(Head(old).qty)) =>
              LET head == Head(old)
                  left == IF head.qty > 0 THEN head.qty - Abs(qty)
                                          ELSE head.qty + Abs(qty)
              IN /\ Len(closed_trades') = Len(closed_trades) + 1
                 /\ closed_trades'[Len(closed_trades')].quantity = Abs(qty)
                 /\ closed_trades'[Len(closed_trades')].entry_date = head.date
                 /\ closed_trades'[Len(closed_trades')].close_date = trades_df[i].trade_date
                 /\ new = <<[head EXCEPT !.qty = left]>> \o Tail(old)

\* C5, the example: buy 100 at 10 then sell 60 at 12 on one key gives one
\* ClosedTrade of quantity 60 and an OpenPosition of quantity 40 at average
\* price 10.
C5_Example ==
    (pc = "done" /\ RowsOf(caller_df, <<"AAPL">>) = <<ExBuy100, ExSell60>>) =>
        /\ Len(TradesOf(closed_df, <<"AAPL">>)) = 1
        /\ TradesOf(closed_df, <<"AAPL">>)[1].quantity = 60
        /\ \E k \in 1..Len(open_df) :
              /\ open_df[k].asset_id = <<"AAPL">>
              /\ open_df[k].quantity = 40
              /\ open_df[k].avg_price = <<10, 1>>
        /\ Cardinality({k \in 1..Len(open_df) : open_df[k].asset_id = <<"AAPL">>}) = 1

\* C5 (partial match): a closing execution whose |quantity| is smaller than the
\* head lot's emits exactly one ClosedTrade for the execution's quantity and
\* reduces the head lot in place, keeping its entry price and timestamp; buy
\* 100 at 10 then sell 60 at 12 gives a ClosedTrade of 60 and an OpenPosition
\* of 40 at average price 10.
C5_PartialMatch == [][C5_PartialStep]_vars /\ [](C5_Example)

\* C5 witness: the example has run to its end, its one match being a partial
\* one (the lot matched held 100, the match took 60).
C5_Witness ==
    /\ pc = "done"
    /\ caller_df = <<ExBuy100, ExSell60>>
    /\ Len(matches) = 1
    /\ matches[1].lot.qty = 100
    /\ matches[1].matched_q = 60
    /\ Len(open_df) = 1

\* ================================== determinism and purity (SpecTwice)
\* A call that returns for the frame an earlier call was given returns what
\* the earlier call returned.
C6_SameResult ==
    (/\ pc = "done"
     /\ earlier_call # <<>>
     /\ earlier_call[1].trades = caller_df
     /\ earlier_call[1].cash = cash_df) =>
        /\ closed_df = earlier_call[1].closed
        /\ open_df = earlier_call[1].open

\* A call that starts on its rows starts with an empty inventory table and an
\* empty ClosedTrade list, whatever the call before left.
C6_FreshState ==
    (pc = "call" /\ pc' = "rows") => (portfolio' = <<>> /\ closed_trades' = <<>>)

\* No step of a call changes the caller's frame.
C6_InputKept == pc # "done" => caller_df' = caller_df

\* C6 (determinism and purity of match): two invocations on the same ordered
\* execution collection return identical ClosedTrade and OpenPosition
\* collections whatever invocations happened before or in between; no
\* inventory or other mutable state survives from one invocation to the next;
\* the caller's collection is left unchanged.
C6_Deterministic ==
    [](C6_SameResult) /\ [][C6_FreshState]_vars /\ [][C6_InputKept]_vars

\* C6 witness: a call has returned a ClosedTrade for the frame of a remembered
\* earlier call.
C6_Witness ==
    /\ pc = "done"
    /\ earlier_call # <<>>
    /\ earlier_call[1].trades = caller_df
    /\ Len(closed_df) > 0

\* ================================ CampaignEngine.identify_campaigns
\* Timestamps of closed trades are whole hours; a Timedelta is a number of hours.
TOLERANCE_STRICT == 2           \* pd.Timedelta(hours=2)
TOLERANCE_LOOSE == 96           \* pd.Timedelta(days=4)

\* The order str gives the root symbols that occur (sort_values, groupby).
RootSymbols == <<"AAPL", "ES", "MSFT", "SPX", "SPXW">>

SymbolRank(root_symbol) ==
    CHOOSE k \in 1..Len(RootSymbols) : RootSymbols[k] = root_symbol[1]

\* Mutant: only 'SPX' is filtered out.
NotCashSettledSpxOnly(df) ==
    SelectIdx(df, [k \in 1..Len(df) |-> df[k].root_symbol # <<"SPX">>])

\* df[~df['root_symbol'].isin(['SPX', 'SPXW'])]
NotCashSettled(df) ==
    SelectIdx(df, [k \in 1..Len(df) |-> df[k].root_symbol \notin {<<"SPX">>, <<"SPXW">>}])

Permute(df, order) == [r \in 1..Len(df) |-> df[order[r]]]

\* df.sort_values(by=['root_symbol', 'entry_date']): with more than one
\* column pandas sorts lexicographically and keeps tied rows in arrival order.
SortValuesByRootAndEntry(df) ==
    LET by_entry == Permute(df, SortOrder([k \in 1..Len(df) |-> df[k].entry_date],
                                          "stable"))
    IN Permute(by_entry,
               SortOrder([k \in 1..Len(df) |-> SymbolRank(by_entry[k].root_symbol)],
                         "stable"))

\* The keys of df.groupby('root_symbol'), ascending.
GroupKeys(df) ==
    LET present == [k \in 1..Len(RootSymbols) |->
                       \E r \in 1..Len(df) : df[r].root_symbol = <<RootSymbols[k]>>]
    IN [k \in 1..Len(SelectIdx(RootSymbols, present)) |->
           <<SelectIdx(RootSymbols, present)[k]>>]

\* The row of df with index label idx.
RowAt(df, idx) == df[CHOOSE k \in 1..Len(df) : df[k].index = idx]

\* group.sort_values('entry_date') of the group of `symbol`, as the index
\* labels of its rows in the order iterrows() yields them.
SortedGroup(df, symbol, kind) ==
    LET rows == SelectIdx(df, [k \in 1..Len(df) |-> df[k].root_symbol = symbol])
        sorted == Permute(rows, SortOrder([k \in 1..Len(rows) |-> rows[k].entry_date],
                                          kind))
    IN [k \in 1..Len(sorted) |-> sorted[k].index]

\* str(uuid.uuid4()): the n-th value handed out; no two are equal.
Uuid(n) == <<"uuid", n>>

\* Lines 57-60.
Tolerance(reason) ==
    IF reason \in {"Assigned", "Exercised", "Expired"}
    THEN TOLERANCE_LOOSE
    ELSE TOLERANCE_STRICT

\* Mutant: an entry exactly on the bound is not linked.
LinkedBeforeBound(entry_date, end, tolerance) == entry_date < end + tolerance

\* row['entry_date'] <= (camp_end + tolerance)
Linked(entry_date, end, tolerance) == entry_date <= end + tolerance

\* Mutant: a linked trade never moves the window's end.
ExtendsWindowNever(close_date, end) == FALSE

\* Mutant: a close equal to the window's end takes the window over too.
ExtendsWindowOnEqual(close_date, end) == close_date >= end

\* if row['close_date'] > camp_end                                  (line 68)
ExtendsWindow(close_date, end) == close_date > end

\* Mutant: the index label is taken for the position of the row.
SetCampaignIdAtPosition(df, idx, id) ==
    [k \in 1..Len(df) |->
        IF k = idx THEN [df[k] EXCEPT !.campaign_id = id] ELSE df[k]]

\* df.at[idx, 'campaign_id'] = id
SetCampaignId(df, idx, id) ==
    [k \in 1..Len(df) |->
        IF df[k].index = idx THEN [df[k] EXCEPT !.campaign_id = id] ELSE df[k]]

\* One row of a closed-trade frame, with the columns identify_campaigns reads
\* and those it hands on to aggregate_campaign_stats: here one share, with
\* no P&L.  lot_mult is no column of the frame: it is the multiplier of the
\* lot the trade closed, which the ClosedTrade does not keep.
ClosedTradeRow(root, entry_date, close_date, close_reason) ==
    [root_symbol |-> <<root>>, entry_date |-> entry_date,
     close_date |-> close_date, close_reason |-> close_reason,
     quantity |-> 1, strike |-> NoNumber, asset_class |-> STK, net_pnl |-> 0,
     lot_mult |-> 1]

\* Closed trades of one root symbol whose entries lie 2 h, 3 h, 3 days, 4 days
\* and 4 days + 1 h after hour 0, closed on entry or (two of them) at hour 3,
\* by a trade or by assignment; two more closes at hour 0 by expiry and by
\* exercise; one trade of a second root and one of each cash-settled root.
CampaignSpans == {<<0, 0>>, <<0, 3>>, <<2, 2>>, <<2, 3>>, <<3, 3>>,
                  <<72, 72>>, <<96, 96>>, <<97, 97>>}

CampaignRows ==
    {ClosedTradeRow("AAPL", sp[1], sp[2], reason) :
        sp \in CampaignSpans, reason \in {"Trade", "Assigned"}}
    \cup {ClosedTradeRow("AAPL", 0, 0, reason) : reason \in {"Expired", "Exercised"}}
    \cup {ClosedTradeRow("MSFT", 0, 0, "Trade"), ClosedTradeRow("SPX", 0, 0, "Trade"),
          ClosedTradeRow("SPXW", 0, 0, "Assigned")}

\* identify_campaigns(closed_trades_df) is called; calculate_fifo_pnl is not
\* running.
FifoIdle ==
    /\ pc = "idle"
    /\ caller_df = <<>>
    /\ cash_df = <<>>
    /\ trades_df = <<>>
    /\ i = 0
    /\ portfolio = <<>>
    /\ closed_trades = <<>>
    /\ matches = <<>>
    /\ closed_df = <<>>
    /\ open_df = <<>>
    /\ earlier_call = <<>>

InitCampaign ==
    /\ sort_kind \in SortKinds
    /\ uuids = 0
    /\ DownloadIdle
    /\ FifoIdle
    /\ camp_pc = "call"
    /\ closed_trades_df \in Frames(CampaignRows, MaxTrades)
    /\ camp_df = <<>>
    /\ group_keys = <<>>
    /\ group = <<>>
    /\ pos = 0
    /\ current_camp_id = None
    /\ camp_end = 0
    /\ camp_end_reason = ""
    /\ campaigns_df = <<>>
    /\ earlier_campaigns = <<>>
    /\ stats_ids = {}
    /\ stats = <<>>
    /\ stats_df = <<>>
    /\ StrategyIdle

\* if closed_trades_df.empty: return pd.DataFrame()             (lines 23-24)
ReturnNoTrades ==
    /\ camp_pc = "call"
    /\ closed_trades_df = <<>>
    /\ campaigns_df' = <<>>
    /\ camp_pc' = "done"
    /\ UNCHANGED <<stats_ids, stats, stats_df, earlier_campaigns, closed_trades_df, camp_df, group_keys, group, pos,
                   current_camp_id, camp_end, camp_end_reason,
                   sort_kind, uuids, fifo_vars,
                   strategy_vars,
                   download_vars>>

\* The copy with its index labels, filtered.                    (lines 26-29)
Filtered(df) ==
    NotCashSettled([k \in 1..Len(df) |->
        [index |-> k, root_symbol |-> df[k].root_symbol,
         entry_date |-> df[k].entry_date, close_date |-> df[k].close_date,
         close_reason |-> df[k].close_reason,
         quantity |-> df[k].quantity, strike |-> df[k].strike,
         asset_class |-> df[k].asset_class, net_pnl |-> df[k].net_pnl,
         lot_mult |-> df[k].lot_mult, campaign_id |-> None]])

\* if df.empty: return pd.DataFrame()                           (lines 26-30)
ReturnAllFiltered ==
    /\ camp_pc = "call"
    /\ closed_trades_df # <<>>
    /\ Filtered(closed_trades_df) = <<>>
    /\ campaigns_df' = <<>>
    /\ camp_pc' = "done"
    /\ UNCHANGED <<stats_ids, stats, stats_df, earlier_campaigns, closed_trades_df, camp_df, group_keys, group, pos,
                   current_camp_id, camp_end, camp_end_reason,
                   sort_kind, uuids, fifo_vars,
                   strategy_vars,
                   download_vars>>

\* Copy, filter, sort, df['campaign_id'] = None, groupby        (lines 26-46)
SortTrades ==
    /\ camp_pc = "call"
    /\ closed_trades_df # <<>>
    /\ Filtered(closed_trades_df) # <<>>
    /\ camp_df' = SortValuesByRootAndEntry(Filtered(closed_trades_df))
    /\ group_keys' = GroupKeys(camp_df')
    /\ camp_pc' = "groups"
    /\ UNCHANGED <<stats_ids, stats, stats_df, earlier_campaigns, closed_trades_df, group, pos, current_camp_id, camp_end,
                   camp_end_reason, campaigns_df, sort_kind, uuids, fifo_vars,
                   strategy_vars,
                   download_vars>>

\* The head of one pass of `for symbol, group in df.groupby(...)` (lines 46-53)
NextGroup ==
    /\ camp_pc = "groups"
    /\ group_keys # <<>>
    /\ group' = SortedGroup(camp_df, Head(group_keys), sort_kind)
    /\ group_keys' = Tail(group_keys)
    /\ uuids' = uuids + 1
    /\ current_camp_id' = Uuid(uuids')
    /\ camp_end' = RowAt(camp_df, group'[1]).close_date
    /\ camp_end_reason' = RowAt(camp_df, group'[1]).close_reason
    /\ pos' = 1
    /\ camp_pc' = "scan"
    /\ UNCHANGED <<stats_ids, stats, stats_df, earlier_campaigns, closed_trades_df, camp_df, campaigns_df, sort_kind, fifo_vars,
                   strategy_vars,
                   download_vars>>

\* One pass of `for idx, row in group.iterrows()`               (lines 55-78)
LinkRow ==
    /\ camp_pc = "scan"
    /\ pos <= Len(group)
    /\ LET idx == group[pos]
           row == RowAt(camp_df, idx)
           tolerance == Tolerance(camp_end_reason)
       IN IF Linked(row.entry_date, camp_end, tolerance)
          THEN /\ camp_df' = SetCampaignId(camp_df, idx, current_camp_id)
               /\ IF ExtendsWindow(row.close_date, camp_end)
                  THEN /\ camp_end' = row.close_date
                       /\ camp_end_reason' = row.close_reason
                  ELSE UNCHANGED <<camp_end, camp_end_reason>>
               /\ UNCHANGED <<current_camp_id, uuids>>
          ELSE /\ uuids' = uuids + 1
               /\ current_camp_id' = Uuid(uuids')
               /\ camp_df' = SetCampaignId(camp_df, idx, current_camp_id')
               /\ camp_end' = row.close_date
               /\ camp_end_reason' = row.close_reason
    /\ pos' = pos + 1
    /\ camp_pc' = IF pos = Len(group) THEN "groups" ELSE "scan"
    /\ UNCHANGED <<stats_ids, stats, stats_df, earlier_campaigns, closed_trades_df, group_keys, group, campaigns_df,
                   sort_kind, fifo_vars,
                   strategy_vars,
                   download_vars>>

\* return df                                                      (line 80)
ReturnCampaigns ==
    /\ camp_pc = "groups"
    /\ group_keys = <<>>
    /\ campaigns_df' = camp_df
    /\ camp_pc' = "done"
    /\ UNCHANGED <<stats_ids, stats, stats_df, earlier_campaigns, closed_trades_df, camp_df, group_keys, group, pos,
                   current_camp_id, camp_end, camp_end_reason,
                   sort_kind, uuids, fifo_vars,
                   strategy_vars,
                   download_vars>>

NextCampaign ==
    \/ ReturnNoTrades
    \/ ReturnAllFiltered
    \/ SortTrades
    \/ NextGroup
    \/ LinkRow
    \/ ReturnCampaigns

SpecCampaign == InitCampaign /\ [][NextCampaign]_vars

\* ------------------------------------------------ the campaign properties
Hours(n) == n
Days(n) == 24 * n

Passive == {"Assigned", "Exercised", "Expired"}

\* The trades of one root symbol in a returned frame.
OnRoot(df, root) == SelectIdx(df, [k \in 1..Len(df) |-> df[k].root_symbol = root])

\* The group being scanned is in ascending entry order.
C7_AscendingEntry ==
    camp_pc = "scan" =>
        NonDecreasing([k \in 1..Len(group) |-> RowAt(camp_df, group[k]).entry_date])

\* A step of the scan on a trade after the first of its root symbol: the trade
\* takes the current campaign id iff its entry is no later than the window's
\* end plus the tolerance of the window's close reason, and otherwise an id no
\* trade has been given before.
C7_LinkStep ==
    (camp_pc = "scan" /\ pos' = pos + 1 /\ pos > 1) =>
        LET trade == RowAt(camp_df, group[pos])
            tolerance == IF camp_end_reason \in Passive THEN Days(4) ELSE Hours(2)
            id == RowAt(camp_df', group[pos]).campaign_id
            given == {camp_df[k].campaign_id : k \in 1..Len(camp_df)}
        IN IF trade.entry_date <= camp_end + tolerance
           THEN id = current_camp_id /\ current_camp_id' = current_camp_id
           ELSE id \notin given /\ id # current_camp_id /\ id = current_camp_id'

\* With only two trades on a root: closed by a trade at T and entered at
\* T + 3 h, distinct ids; closed by assignment at T and entered at T + 3 days,
\* the same id.
C7_TwoTrades ==
    camp_pc = "done" =>
        \A r \in 1..Len(RootSymbols) :
            LET on_root == OnRoot(campaigns_df, <<RootSymbols[r]>>)
            IN Len(on_root) = 2 =>
                \A a, b \in 1..2 :
                    /\ (/\ on_root[a].close_reason = "Trade"
                        /\ on_root[b].entry_date = on_root[a].close_date + Hours(3))
                       => on_root[a].campaign_id # on_root[b].campaign_id
                    /\ (/\ on_root[a].close_reason = "Assigned"
                        /\ on_root[b].entry_date = on_root[a].close_date + Days(3))
                       => on_root[a].campaign_id = on_root[b].campaign_id

\* C7: campaign link rule.  Scanning a root symbol's trades in ascending entry
\* order, a trade after the first joins the current campaign iff its entry
\* <= windowEnd + tolerance (4 days after an Assigned, Exercised or Expired
\* window end, 2 hours otherwise; an entry on the bound is linked), and gets a
\* new campaign id otherwise; of two trades alone on a root, T and T + 3 h
\* after a manual close get distinct ids, T and T + 3 days after an assignment
\* get the same id.
C7_CampaignLink ==
    /\ [](C7_AscendingEntry)
    /\ [][C7_LinkStep]_vars
    /\ [](C7_TwoTrades)

\* C7 witness: three trades of one root have been scanned; the second entered
\* exactly 2 h after the manual close of the first and shares its id, the third
\* entered later than the bound and has another id.
C7_Witness ==
    /\ camp_pc = "done"
    /\ \E a, b, c \in 1..Len(campaigns_df) :
        /\ campaigns_df[a].root_symbol = campaigns_df[b].root_symbol
        /\ campaigns_df[b].root_symbol = campaigns_df[c].root_symbol
        /\ campaigns_df[a].close_reason = "Trade"
        /\ campaigns_df[b].close_reason = "Trade"
        /\ campaigns_df[a].close_date = campaigns_df[a].entry_date
        /\ campaigns_df[b].entry_date = campaigns_df[a].close_date + Hours(2)
        /\ campaigns_df[b].close_date = campaigns_df[b].entry_date
        /\ campaigns_df[c].entry_date > campaigns_df[b].close_date + Hours(2)
        /\ campaigns_df[a].campaign_id = campaigns_df[b].campaign_id
        /\ campaigns_df[c].campaign_id # campaigns_df[b].campaign_id

\* The trades of the campaign being built, in the order the scan met them.
CurrentCampaign ==
    LET scanned == [k \in 1..Len(group) |-> RowAt(camp_df, group[k])]
    IN SelectIdx(scanned,
                 [k \in 1..Len(group) |-> scanned[k].campaign_id = current_camp_id])

LatestClose(trades) ==
    CHOOSE c \in {trades[k].close_date : k \in 1..Len(trades)} :
        \A k \in 1..Len(trades) : trades[k].close_date <= c

\* The first of the trades, in their order, that closes at `close`.
FirstClosingAt(trades, close) ==
    trades[CHOOSE k \in 1..Len(trades) :
              /\ trades[k].close_date = close
              /\ \A j \in 1..(k - 1) : trades[j].close_date # close]

\* C28 (as claimed): two trades of one root symbol, the first closed by
\* assignment, exercise or expiry at T and the other entered later, and no
\* later than T + 4 days, have the same campaign id.
C28_PassiveBridge_Claimed ==
    camp_pc = "done" =>
        \A a, b \in 1..Len(campaigns_df) :
            (/\ campaigns_df[a].root_symbol = campaigns_df[b].root_symbol
             /\ campaigns_df[a].close_reason \in Passive
             /\ campaigns_df[b].entry_date > campaigns_df[a].entry_date
             /\ campaigns_df[b].entry_date <= campaigns_df[a].close_date + Days(4))
            => campaigns_df[a].campaign_id = campaigns_df[b].campaign_id

\* C29, the state: once a trade of the root symbol has been scanned, camp_end
\* is the latest close among the trades of the current campaign and
\* camp_end_reason the close reason of the first of them that closed then.
C29_WindowIsLatestClose ==
    (camp_pc \in {"scan", "groups"} /\ group # <<>> /\ (camp_pc = "scan" => pos > 1)) =>
        /\ CurrentCampaign # <<>>
        /\ camp_end = LatestClose(CurrentCampaign)
        /\ camp_end_reason = FirstClosingAt(CurrentCampaign, camp_end).close_reason

\* C29, the step on one trade: when the trade is linked, the window's end and
\* reason become the trade's close and reason if that close is later than the
\* end, and stay otherwise, so the end does not go back; when the trade starts
\* a campaign, they become the trade's close and reason.
C29_Step ==
    (camp_pc = "scan" /\ pos' = pos + 1) =>
        LET trade == RowAt(camp_df, group[pos])
            linked == RowAt(camp_df', group[pos]).campaign_id = current_camp_id
        IN IF linked
           THEN /\ current_camp_id' = current_camp_id
                /\ camp_end' >= camp_end
                /\ IF trade.close_date > camp_end
                   THEN /\ camp_end' = trade.close_date
                        /\ camp_end_reason' = trade.close_reason
                   ELSE /\ camp_end' = camp_end
                        /\ camp_end_reason' = camp_end_reason
           ELSE /\ camp_end' = trade.close_date
                /\ camp_end_reason' = trade.close_reason

\* C29: campaign window state.
C29_WindowState == [](C29_WindowIsLatestClose) /\ [][C29_Step]_vars

\* Three trades of one campaign have been scanned: the second closed later
\* than the first and by assignment, the third closed at the same time as the
\* second, by a trade; the window ends at that close, with reason Assigned.
C29_Witness ==
    /\ camp_pc = "groups"
    /\ Len(CurrentCampaign) = 3
    /\ CurrentCampaign[1].close_date < CurrentCampaign[2].close_date
    /\ CurrentCampaign[2].close_reason = "Assigned"
    /\ CurrentCampaign[3].close_date = CurrentCampaign[2].close_date
    /\ CurrentCampaign[3].close_reason = "Trade"
    /\ camp_end = CurrentCampaign[3].close_date
    /\ camp_end_reason = "Assigned"

\* ====================== StrategyEngine.group_executions_into_strategies
\* Entry timestamps of legs are whole seconds.
time_threshold_seconds == 10    \* the default of the parameter

\* str(x) of a value of column asset_class
Str(x) == IF x = None THEN <<"N", "o", "n", "e">> ELSE x

\* cluster_df[col].dropna().unique(), as a set
Unique(values) == {values[k] : k \in 1..Len(values)} \ {None, NoNumber}

\* f"Custom {count}-Leg"
CustomLabel(count) == "Custom " \o ToString(count) \o "-Leg"

\* Mutant: the test of the rights is turned round.
ClassifyStrategyRightsTurned(cluster_df) ==
    LET count == Len(cluster_df)
        asset_classes == {Str(cluster_df[k].asset_class) : k \in 1..count}
        rights == Unique([k \in 1..count |-> cluster_df[k].put_call])
        expiries == Unique([k \in 1..count |-> cluster_df[k].expiry])
        is_stock == \E x \in asset_classes : Contains(x, STK)
        is_opt == \E x \in asset_classes : Contains(x, OPT) \/ Contains(x, FOP)
    IN IF count = 1 THEN "Single"
       ELSE IF is_stock /\ is_opt THEN "Covered/Protected Stock"
       ELSE IF count = 2
            THEN IF Cardinality(expiries) = 1
                 THEN IF Cardinality(rights) # 1
                      THEN "Vertical Spread"
                      ELSE "Straddle/Strangle"
                 ELSE "Calendar/Diagonal Spread"
       ELSE IF count = 3 THEN "Butterfly/Ladder"
       ELSE IF count = 4 /\ Cardinality(expiries) = 1 THEN "Iron Condor"
       ELSE CustomLabel(count)

\* _classify_strategy(cluster_df)                              (lines 78-129)
\* No statement of the try block raises on a frame that has its columns, so
\* the except branch is never taken.
ClassifyStrategy(cluster_df) ==
    LET count == Len(cluster_df)
        asset_classes == {Str(cluster_df[k].asset_class) : k \in 1..count}
        rights == Unique([k \in 1..count |-> cluster_df[k].put_call])
        expiries == Unique([k \in 1..count |-> cluster_df[k].expiry])
        is_stock == \E x \in asset_classes : Contains(x, STK)
        is_opt == \E x \in asset_classes : Contains(x, OPT) \/ Contains(x, FOP)
    IN IF count = 1 THEN "Single"
       ELSE IF is_stock /\ is_opt THEN "Covered/Protected Stock"
       ELSE IF count = 2
            THEN IF Cardinality(expiries) = 1
                 THEN IF Cardinality(rights) = 1
                      THEN "Vertical Spread"
                      ELSE "Straddle/Strangle"
                 ELSE "Calendar/Diagonal Spread"
       ELSE IF count = 3 THEN "Butterfly/Ladder"
       ELSE IF count = 4 /\ Cardinality(expiries) = 1 THEN "Iron Condor"
       ELSE CustomLabel(count)

\* df.loc[strategy_buffer]: the rows with the labels of the buffer, in the
\* buffer's order.
Loc(df, labels) == [k \in 1..Len(labels) |-> RowAt(df, labels[k])]

\* df.loc[strategy_buffer, 'strategy_type'] = strat_type
SetStrategyType(df, labels, strat_type) ==
    [k \in 1..Len(df) |->
        IF \E b \in 1..Len(labels) : labels[b] = df[k].index
        THEN [df[k] EXCEPT !.strategy_type = strat_type]
        ELSE df[k]]

\* df.at[index, 'strategy_id'] = current_strategy_id
SetStrategyId(df, idx, id) ==
    [k \in 1..Len(df) |->
        IF df[k].index = idx THEN [df[k] EXCEPT !.strategy_id = id] ELSE df[k]]

\* Mutant: a gap equal to the threshold starts a new group.
IsNewGroupOnThreshold(prev, row) ==
    \/ prev = <<>>
    \/ /\ prev # <<>>
       /\ \/ row.root_symbol # prev[1].root_symbol
          \/ Abs(row.entry_date - prev[1].entry_date) >= time_threshold_seconds

\* Lines 45-56.
IsNewGroup(prev, row) ==
    \/ prev = <<>>
    \/ /\ prev # <<>>
       /\ \/ row.root_symbol # prev[1].root_symbol
          \/ Abs(row.entry_date - prev[1].entry_date) > time_threshold_seconds

\* One row of a closed-trade frame, with the columns the strategy engine reads
\* and those it hands on to aggregate_strategy_pnl: here one unit closed by a
\* trade at its entry time, with no P&L and no commission.
Leg(root, asset_class, put_call, expiry, strike, entry_date) ==
    [root_symbol |-> <<root>>, asset_class |-> asset_class, put_call |-> put_call,
     expiry |-> expiry, strike |-> strike, entry_date |-> entry_date,
     quantity |-> 1, close_date |-> entry_date, net_pnl |-> 0, commission |-> 0,
     close_reason |-> "Trade"]

JAN == <<"20240119">>
FEB == <<"20240216">>
Call == <<"C">>
Put == <<"P">>

\* Option legs of one root entered at seconds 0, 10 and 21 (a gap on the
\* threshold and a gap beyond it): a call and a put of one expiry, a call of a
\* second expiry; a call of another strike; a stock leg; a leg of another root.
StrategyLegs ==
    {Leg("AAPL", OPT, Call, JAN, <<150>>, t) : t \in {0, 10, 21}}
    \cup {Leg("AAPL", OPT, Put, JAN, <<150>>, t) : t \in {0, 10, 21}}
    \cup {Leg("AAPL", OPT, Call, FEB, <<150>>, t) : t \in {0, 10, 21}}
    \cup {Leg("AAPL", OPT, Call, JAN, <<160>>, 0),
          Leg("AAPL", STK, None, None, NoNumber, 0),
          Leg("MSFT", FOP, Put, JAN, <<300>>, 0)}

\* The call makes no single-column sort: the tie order of the build's
\* quicksort has no part in it.
InitStrategy ==
    /\ sort_kind = "stable"
    /\ uuids = 0
    /\ DownloadIdle
    /\ FifoIdle
    /\ CampaignIdle
    /\ strat_pc = "call"
    /\ legs_df \in Frames(StrategyLegs, MaxLegs)
    /\ strat_df = <<>>
    /\ strat_i = 0
    /\ current_strategy_id = None
    /\ prev_row = <<>>
    /\ strategy_buffer = <<>>
    /\ strategies_df = <<>>
    /\ metrics = <<>>

\* if trades_df.empty: return trades_df                        (lines 18-19)
ReturnNoLegs ==
    /\ strat_pc = "call"
    /\ legs_df = <<>>
    /\ strategies_df' = legs_df
    /\ strat_pc' = "done"
    /\ UNCHANGED <<legs_df, strat_df, strat_i, current_strategy_id, prev_row,
                   strategy_buffer, metrics, sort_kind, uuids, fifo_vars,
                   campaign_vars,
                   download_vars>>

\* Copy, sort, the two new columns, the first uuid             (lines 21-42)
SortLegs ==
    /\ strat_pc = "call"
    /\ legs_df # <<>>
    /\ strat_df' = SortValuesByRootAndEntry(
            [k \in 1..Len(legs_df) |->
                [index |-> k, root_symbol |-> legs_df[k].root_symbol,
                 entry_date |-> legs_df[k].entry_date,
                 asset_class |-> legs_df[k].asset_class,
                 put_call |-> legs_df[k].put_call, expiry |-> legs_df[k].expiry,
                 strike |-> legs_df[k].strike,
                 quantity |-> legs_df[k].quantity,
                 close_date |-> legs_df[k].close_date,
                 net_pnl |-> legs_df[k].net_pnl,
                 commission |-> legs_df[k].commission,
                 close_reason |-> legs_df[k].close_reason,
                 strategy_id |-> None, strategy_type |-> "Single"]])
    /\ uuids' = uuids + 1
    /\ current_strategy_id' = Uuid(uuids')
    /\ prev_row' = <<>>
    /\ strategy_buffer' = <<>>
    /\ strat_i' = 1
    /\ strat_pc' = "rows"
    /\ UNCHANGED <<legs_df, strategies_df, metrics, sort_kind, fifo_vars,
                   campaign_vars,
                   download_vars>>

\* One pass of `for index, row in df.iterrows()`               (lines 44-69)
GroupRow ==
    /\ strat_pc = "rows"
    /\ strat_i <= Len(strat_df)
    /\ LET row == strat_df[strat_i]
           index == row.index
       IN IF IsNewGroup(prev_row, row)
          THEN LET typed ==
                       IF strategy_buffer # <<>>
                       THEN SetStrategyType(strat_df, strategy_buffer,
                                ClassifyStrategy(Loc(strat_df, strategy_buffer)))
                       ELSE strat_df
               IN /\ uuids' = uuids + 1
                  /\ current_strategy_id' = Uuid(uuids')
                  /\ strategy_buffer' = <<index>>
                  /\ strat_df' = SetStrategyId(typed, index, current_strategy_id')
                  /\ prev_row' = <<row>>
          ELSE /\ strategy_buffer' = Append(strategy_buffer, index)
               /\ strat_df' = SetStrategyId(strat_df, index, current_strategy_id)
               /\ prev_row' = <<row>>
               /\ UNCHANGED <<uuids, current_strategy_id>>
    /\ strat_i' = strat_i + 1
    /\ UNCHANGED <<strat_pc, legs_df, strategies_df, metrics, sort_kind, fifo_vars,
                   campaign_vars,
                   download_vars>>

\* The last buffer and the return                              (lines 71-75)
ClassifyLast ==
    /\ strat_pc = "rows"
    /\ strat_i > Len(strat_df)
    /\ strat_df' =
         IF strategy_buffer # <<>>
         THEN SetStrategyType(strat_df, strategy_buffer,
                  ClassifyStrategy(Loc(strat_df, strategy_buffer)))
         ELSE strat_df
    /\ strategies_df' = strat_df'
    /\ strat_pc' = "done"
    /\ UNCHANGED <<legs_df, strat_i, current_strategy_id, prev_row,
                   strategy_buffer, metrics, sort_kind, uuids, fifo_vars,
                   campaign_vars,
                   download_vars>>

NextStrategy == ReturnNoLegs \/ SortLegs \/ GroupRow \/ ClassifyLast

SpecStrategy == InitStrategy /\ [][NextStrategy]_vars

\* ------------------------------------------------ the strategy properties
\* The rows of a returned frame that carry one strategy id.
ClusterOf(df, id) == SelectIdx(df, [k \in 1..Len(df) |-> df[k].strategy_id = id])

OptionLegs(cluster) ==
    \A k \in 1..Len(cluster) : cluster[k].asset_class \in {OPT, FOP}

SameExpiry(cluster) ==
    \A a, b \in 1..Len(cluster) : cluster[a].expiry = cluster[b].expiry

SameRight(cluster) ==
    \A a, b \in 1..Len(cluster) : cluster[a].put_call = cluster[b].put_call

Labelled(cluster, label) ==
    \A k \in 1..Len(cluster) : cluster[k].strategy_type = label

\* C8: strategy classification.  In the returned frame every cluster of option
\* legs carries one label on all its rows; the label is "Single" for one leg,
\* "Vertical Spread" for two legs of one expiry and one right,
\* "Straddle/Strangle" for two legs of one expiry and different rights, and
\* "Iron Condor" for four legs of one expiry.
C8_Classification ==
    strat_pc = "done" =>
        \A r \in 1..Len(strategies_df) :
            LET cluster == ClusterOf(strategies_df, strategies_df[r].strategy_id)
                legs == Len(cluster)
            IN OptionLegs(cluster) =>
                /\ Labelled(cluster, cluster[1].strategy_type)
                /\ legs = 1 => Labelled(cluster, "Single")
                /\ (legs = 2 /\ SameExpiry(cluster) /\ SameRight(cluster))
                       => Labelled(cluster, "Vertical Spread")
                /\ (legs = 2 /\ SameExpiry(cluster) /\ ~SameRight(cluster))
                       => Labelled(cluster, "Straddle/Strangle")
                /\ (legs = 4 /\ SameExpiry(cluster))
                       => Labelled(cluster, "Iron Condor")

\* C8 witness: a frame has been returned in which four option legs of one
\* expiry, calls and puts, form one cluster labelled "Iron Condor".
C8_Witness ==
    /\ strat_pc = "done"
    /\ Len(strategies_df) = 4
    /\ LET cluster == ClusterOf(strategies_df, strategies_df[1].strategy_id)
       IN /\ Len(cluster) = 4
          /\ OptionLegs(cluster)
          /\ SameExpiry(cluster)
          /\ ~SameRight(cluster)
          /\ Labelled(cluster, "Iron Condor")

\* ============================ PnLEngine: what a call returns, as a value
\* The loop of lines 32-137 over the rows still to come.
RECURSIVE ProcessRows(_, _, _)
ProcessRows(rows, pf, closed) ==
    IF rows = <<>>
    THEN [portfolio |-> pf, closed_trades |-> closed]
    ELSE LET row == Head(rows)
             asset_key == generate_asset_key(row)
             r == ApplyRow(Inventory(pf, asset_key), row, Scale)
         IN ProcessRows(Tail(rows), SetInventory(pf, asset_key, r.inventory),
                        closed \o [k \in 1..Len(r.events) |-> r.events[k].trade])

\* calculate_fifo_pnl(trades_df, cash_df) on a build whose sort is `kind`.
calculate_fifo_pnl(df, cash, kind) ==
    IF df = <<>>
    THEN [closed |-> <<>>, open |-> <<>>]
    ELSE LET p == ProcessRows(SortValuesByTradeDate(df, kind), <<>>, <<>>)
         IN [closed |-> p.closed_trades \o DividendTrades(cash),
             open   |-> OpenPositions(p.portfolio)]

\* ==================================== PnLEngine: rows with missing cells
\* The row with the cells of `columns` NULL.
Lacking(row, columns) == [row EXCEPT !.nulls = columns]

\* Executions of one unit of the stock at 10, bought or sold, at hour 1, at
\* hour 2 or without a timestamp, with or without a commission (1 where it
\* has one) and with or without a multiplier.
MissingRows ==
    {Lacking(Execution(AAPL, side, 1, 10, IF nulls = {} THEN 1 ELSE 0, m, d, <<>>),
             nulls) :
        side \in {"BUY", "SELL"}, d \in {1, 2, NaT},
        nulls \in {{}, {"commission"}}, m \in {NoNumber, <<100>>}}

InitMissing ==
    /\ sort_kind \in SortKinds
    /\ uuids = 0
    /\ DownloadIdle
    /\ CampaignIdle
    /\ StrategyIdle
    /\ earlier_call = <<>>
    /\ \E df \in Frames(MissingRows, MaxMissingRows) : Entry(df, <<>>)

SpecMissing == InitMissing /\ [][Next]_vars

\* The rows of a frame that have a timestamp.
Timestamped(df) == SelectIdx(df, [k \in 1..Len(df) |-> df[k].trade_date # NaT])

\* C11 (as claimed): a row that lacks a timestamp is skipped: the call returns
\* the ClosedTrades and OpenPositions it returns for the frame without the row.
C11_MalformedSkipped_Claimed ==
    pc = "done" =>
        LET r == calculate_fifo_pnl(Timestamped(caller_df), cash_df, sort_kind)
        IN closed_df = r.closed /\ open_df = r.open

\* The lots a row step has put on the queue of its key: the queue after the
\* step is longer than the lots left of the queue before it.
StepInventory == Inventory(portfolio, StepKey)
StepInventoryAfter == Inventory(portfolio', StepKey)
StepPopped ==
    Cardinality({k \in 1..Len(StepEvents) :
                    StepEvents[k].matched_q = StepEvents[k].lot.qty})
StepOpened == Len(StepInventoryAfter) > Len(StepInventory) - StepPopped
StepLot == StepInventoryAfter[Len(StepInventoryAfter)]

\* C12 (as claimed): an execution with a missing multiplier opens its lot with
\* multiplier 1; an execution with a missing commission opens its lot with a
\* per-unit commission of 0 and adds nothing to the commission of the
\* ClosedTrades it closes, which is the share of the lot alone.
C12_Step ==
    IsRowStep =>
        LET row == trades_df[i]
        IN /\ (row.multiplier = NoNumber /\ StepOpened) => StepLot.mult = 1
           /\ "commission" \in row.nulls =>
                /\ StepOpened => (StepLot.nan = {} /\ StepLot.comm_per_unit = 0)
                /\ \A k \in 1..Len(StepEvents) :
                      /\ StepEvents[k].trade.nan = {}
                      /\ StepEvents[k].trade.commission =
                            Abs(StepEvents[k].matched_q)
                                * StepEvents[k].lot.comm_per_unit

C12_Defaults_Claimed == [][C12_Step]_vars

\* ============================================= PnLEngine: close reasons
\* The text of column code: the codes of the execution, joined with ';'.
\* A, Ex and Ep are the broker's codes of assignment, exercise and expiration;
\* C marks a closing trade and Aw a trade executed away from the broker.
Semicolon == <<";">>
CodeA == <<"A">>
CodeEx == <<"E", "x">>
CodeEp == <<"E", "p">>
CodeC == <<"C">>
CodeAw == <<"A", "w">>

ReasonCodes ==
    {<<>>, CodeA, CodeEx, CodeEp, CodeC, CodeAw,
     CodeA \o Semicolon \o CodeEp, CodeEx \o Semicolon \o CodeEp}

\* One unit of the stock or of the option bought at hour 1 at 10, and sold at
\* hour 2 at 10 or at 0 under each text of column code.
ReasonRows ==
    {Execution(inst, "BUY", 1, 10, 0, NoNumber, 1, <<>>) : inst \in {AAPL, AAPL_C150}}
    \cup {Execution(inst, "SELL", 1, p, 0, NoNumber, 2, code) :
            inst \in {AAPL, AAPL_C150}, p \in {0, 10}, code \in ReasonCodes}

InitReason ==
    /\ sort_kind \in SortKinds
    /\ uuids = 0
    /\ DownloadIdle
    /\ CampaignIdle
    /\ StrategyIdle
    /\ earlier_call = <<>>
    /\ \E df \in Frames(ReasonRows, MaxReasonRows) : Entry(df, <<>>)

SpecReason == InitReason /\ [][Next]_vars

\* The codes of a text of column code: its pieces between the ';'.
RECURSIVE CodeList(_, _)
CodeList(text, piece) ==
    IF text = <<>> THEN {piece}
    ELSE IF Head(text) = ";" THEN {piece} \cup CodeList(Tail(text), <<>>)
    ELSE CodeList(Tail(text), Append(piece, Head(text)))

\* The close reason the priority gives an execution.
ReasonByPriority(row) ==
    LET codes == CodeList(row.code, <<>>)
    IN IF CodeA \in codes THEN "Assigned"
       ELSE IF CodeEx \in codes THEN "Exercised"
       ELSE IF CodeEp \in codes THEN "Expired"
       ELSE IF row.asset_class = OPT /\ row.price = 0 THEN "Expired"
       ELSE "Trade"

\* C13 (as claimed): every ClosedTrade carries the close reason that the
\* priority assignment code > exercise code > expiration code > option closed
\* at price 0 > ordinary Trade gives its closing execution.
C13_Step ==
    IsRowStep =>
        \A k \in 1..Len(StepEvents) :
            StepEvents[k].trade.close_reason = ReasonByPriority(trades_df[i])

C13_ReasonPriority_Claimed == [][C13_Step]_vars

\* ================================================ PnLEngine: asset keys
FUT == <<"F", "U", "T">>

\* An option given without its underlying, an option on a future, and two
\* futures contracts of one underlying.
AAPL_P140 == [symbol |-> <<"AAPL240119P00140000">>, underlying |-> None,
              asset_class |-> OPT, expiry |-> <<"20240119">>, strike |-> <<140>>,
              put_call |-> <<"P">>]

ES_C5000 == [symbol |-> <<"ESH4C5000">>, underlying |-> <<"ESH4">>,
             asset_class |-> FOP, expiry |-> <<"20240315">>, strike |-> <<5000>>,
             put_call |-> <<"C">>]

ESH4 == [symbol |-> <<"ESH4">>, underlying |-> <<"ES">>, asset_class |-> FUT,
         expiry |-> <<"20240315">>, strike |-> NoNumber, put_call |-> None]

ESM4 == [symbol |-> <<"ESM4">>, underlying |-> <<"ES">>, asset_class |-> FUT,
         expiry |-> <<"20240621">>, strike |-> NoNumber, put_call |-> None]

Instruments == {AAPL, AAPL_C150, AAPL_P140, ES_C5000, ESH4, ESM4}

\* One unit of each instrument bought or sold at 10 on two dates.
KeyRows ==
    {Execution(inst, side, 1, 10, 0, NoNumber, d, <<>>) :
        inst \in Instruments, side \in {"BUY", "SELL"}, d \in 1..2}

InitKeys ==
    /\ sort_kind \in SortKinds
    /\ uuids = 0
    /\ DownloadIdle
    /\ CampaignIdle
    /\ StrategyIdle
    /\ earlier_call = <<>>
    /\ \E df \in Frames(KeyRows, MaxKeyRows) : Entry(df, <<>>)

SpecKeys == InitKeys /\ [][Next]_vars

\* The key the derivation rule gives an execution, in the form of the
\* engine's keys: (root, expiry, strike, right) for an option or an option on
\* a future, the symbol for any other asset class.
KeyByRule(row) ==
    IF row.asset_class \in {OPT, FOP}
    THEN (IF row.underlying # None THEN row.underlying ELSE row.symbol)
         \o <<WordStr(row.expiry), FloatStr(row.strike), WordStr(row.put_call)>>
    ELSE row.symbol

\* The rows the loop has been through.
RowsDone ==
    IF pc = "call" THEN <<>>
    ELSE SubSeq(trades_df, 1, IF i > Len(trades_df) THEN Len(trades_df) ELSE i - 1)

\* C14 (as claimed): the keys of the portfolio are the keys the rule gives the
\* executions processed, and every ClosedTrade carries the key the rule gives
\* an execution of the frame.
C14_AssetKey_Claimed ==
    /\ {portfolio[k].asset_id : k \in 1..Len(portfolio)}
         = {KeyByRule(RowsDone[k]) : k \in 1..Len(RowsDone)}
    /\ \A t \in 1..Len(closed_trades) :
         \E k \in 1..Len(RowsDone) : closed_trades[t].asset_id = KeyByRule(RowsDone[k])

\* ============================================== PnLEngine: dividends
\* One row of the cash-transaction frame, with the columns part 2 reads.
\* The amount is in the money unit of the model, as net_pnl is.
CashTransaction(type, symbol, amount, date) ==
    [type |-> type, symbol |-> <<symbol>>, amount |-> amount, date |-> date]

\* A dividend, a payment in lieu, a tax withheld and an interest payment, each
\* as a credit of 5 and as a debit of 1.
CashRows ==
    {CashTransaction(type, "AAPL", amount, 1) :
        type \in DivTypes \cup {"BrokerInterestReceived"}, amount \in {5, -1}}

\* Any cash frame beside no execution or one execution of the stock.
InitCash ==
    /\ sort_kind \in SortKinds
    /\ uuids = 0
    /\ DownloadIdle
    /\ CampaignIdle
    /\ StrategyIdle
    /\ earlier_call = <<>>
    /\ \E df \in {<<>>} \cup {<<row>> : row \in TwiceRows},
          cash \in Frames(CashRows, MaxCashRows) : Entry(df, cash)

SpecCash == InitCash /\ [][Next]_vars

\* The closed trades that are the pseudo-trade of a cash transaction.
FoldsOf(closed, tx) ==
    {k \in 1..Len(closed) :
        /\ closed[k].close_reason = tx.type
        /\ closed[k].quantity = 0
        /\ closed[k].commission = 0
        /\ closed[k].net_pnl = tx.amount}

\* C15 (as claimed): in the returned closed trades every cash transaction of a
\* dividend or withholding type has its pseudo-trade (quantity 0, commission
\* 0, net P&L the amount, close reason the type), as many as there are such
\* transactions and no more, and no closed trade has the type of another cash
\* transaction as its close reason; for an empty execution frame as well.
C15_DividendsFolded_Claimed ==
    pc = "done" =>
        \A j \in 1..Len(cash_df) :
            IF cash_df[j].type \in DivTypes
            THEN Cardinality(FoldsOf(closed_df, cash_df[j]))
                    = Cardinality({n \in 1..Len(cash_df) : cash_df[n] = cash_df[j]})
            ELSE \A k \in 1..Len(closed_df) :
                    closed_df[k].close_reason # cash_df[j].type

\* ============================================ PnLEngine: open positions
\* The returned OpenPositions of a key.
PositionsOf(open, key) == SelectIdx(open, [k \in 1..Len(open) |-> open[k].asset_id = key])

\* C16: OpenPosition snapshot.  When the call has returned, every key whose
\* final inventory has a net quantity other than 0 has exactly one
\* OpenPosition, whose quantity is the sum of the signed quantities of the
\* resident lots and whose average price is the sum of lot price x |lot
\* quantity| divided by |net quantity|; no other key has an OpenPosition.
C16_OpenPositionSnapshot ==
    (pc = "done" /\ caller_df # <<>>) =>
        /\ \A e \in 1..Len(portfolio) :
            LET lots == portfolio[e].lots
                net == SumSeq([k \in 1..Len(lots) |-> lots[k].qty])
                cost == SumSeq([k \in 1..Len(lots) |-> lots[k].price * Abs(lots[k].qty)])
                mine == PositionsOf(open_df, portfolio[e].asset_id)
            IN IF Abs(net) > 0
               THEN /\ Len(mine) = 1
                    /\ mine[1].quantity = net
                    /\ mine[1].avg_price[1] * Abs(net) = mine[1].avg_price[2] * cost
                    /\ mine[1].avg_price[2] > 0
               ELSE Len(mine) = 0
        /\ \A k \in 1..Len(open_df) : HasKey(portfolio, open_df[k].asset_id)

\* C16 witness: a call has returned a short OpenPosition of three units built
\* from two lots sold at different prices.
C16_Witness ==
    /\ pc = "done"
    /\ Len(open_df) = 1
    /\ open_df[1].quantity = -3
    /\ open_df[1].avg_price = <<34, 3>>
    /\ Len(portfolio[1].lots) = 2

\* ============================================ PnLEngine: processing order
\* The rows of a frame that carry one timestamp, in the frame's order.
AtDate(df, d) == SelectIdx(df, [k \in 1..Len(df) |-> df[k].trade_date = d])

\* C17 (as claimed): the rows are processed in non-decreasing timestamp order,
\* and rows with equal timestamps in their arrival order (a stable sort).
C17_StableOrder_Claimed ==
    pc \in {"rows", "done"} /\ caller_df # <<>> =>
        /\ NonDecreasing([k \in 1..Len(trades_df) |-> trades_df[k].trade_date])
        /\ \A k \in 1..Len(caller_df) :
              AtDate(trades_df, caller_df[k].trade_date)
                  = AtDate(caller_df, caller_df[k].trade_date)

\* C19 (as claimed): every ClosedTrade of a match event has a quantity above
\* 0, the magnitude of the quantity matched.
C19_PositiveQuantity_Claimed ==
    \A k \in 1..Len(matches) :
        /\ matches[k].trade.quantity > 0
        /\ matches[k].trade.quantity = Abs(matches[k].matched_q)

\* ------------------------------------------- cash-settled index roots
\* Closed trades of two ordinary roots (entries 2 h and 3 h after hour 0, one
\* closed by assignment) and of the two cash-settled roots.
ExclusionRows ==
    {ClosedTradeRow("AAPL", 0, 0, "Trade"), ClosedTradeRow("AAPL", 2, 2, "Trade"),
     ClosedTradeRow("AAPL", 3, 3, "Assigned"), ClosedTradeRow("MSFT", 0, 0, "Trade"),
     ClosedTradeRow("SPX", 0, 0, "Trade"), ClosedTradeRow("SPXW", 0, 0, "Assigned")}

InitExclusion ==
    /\ sort_kind \in SortKinds
    /\ uuids = 0
    /\ DownloadIdle
    /\ FifoIdle
    /\ camp_pc = "call"
    /\ closed_trades_df \in Frames(ExclusionRows, MaxExclusionTrades)
    /\ camp_df = <<>>
    /\ group_keys = <<>>
    /\ group = <<>>
    /\ pos = 0
    /\ current_camp_id = None
    /\ camp_end = 0
    /\ camp_end_reason = ""
    /\ campaigns_df = <<>>
    /\ earlier_campaigns = <<>>
    /\ stats_ids = {}
    /\ stats = <<>>
    /\ stats_df = <<>>
    /\ StrategyIdle

\* The rows of a closed-trade frame on SPX or SPXW, as a mask, and the others.
OnIndexRoot(df) == [k \in 1..Len(df) |-> df[k].root_symbol \in {<<"SPX">>, <<"SPXW">>}]
OtherRoots(df) == SelectIdx(df, [k \in 1..Len(df) |-> ~OnIndexRoot(df)[k]])

\* The caller calls identify_campaigns once more, with a frame that differs
\* from the last one only in its SPX and SPXW rows: some removed, some added,
\* the rows on other roots all there and in the same order.  The call that has
\* returned is remembered in earlier_campaigns.
ReinvokeCampaigns ==
    /\ camp_pc = "done"
    /\ earlier_campaigns = <<>>
    /\ \E df \in Frames(ExclusionRows, MaxExclusionTrades) :
          /\ OtherRoots(df) = OtherRoots(closed_trades_df)
          /\ df # closed_trades_df
          /\ closed_trades_df' = df
    /\ earlier_campaigns' = <<[trades |-> closed_trades_df, campaigns |-> campaigns_df]>>
    /\ camp_pc' = "call"
    /\ camp_df' = <<>>
    /\ group_keys' = <<>>
    /\ group' = <<>>
    /\ pos' = 0
    /\ current_camp_id' = None
    /\ camp_end' = 0
    /\ camp_end_reason' = ""
    /\ UNCHANGED <<campaigns_df, stats_ids, stats, stats_df, sort_kind, uuids,
                   fifo_vars, strategy_vars,
                   download_vars>>

NextExclusion == NextCampaign \/ ReinvokeCampaigns

SpecExclusion == InitExclusion /\ [][NextExclusion]_vars

\* The positions of the rows of df on other roots than SPX and SPXW, and the
\* place of such a row among them.
OtherPositions(df) == {k \in 1..Len(df) : ~OnIndexRoot(df)[k]}
RankAmongOthers(df, k) == Cardinality({j \in OtherPositions(df) : j <= k})

\* The rows labelled a and b of a returned frame are in one campaign.
SameCampaign(out, a, b) == RowAt(out, a).campaign_id = RowAt(out, b).campaign_id

\* The a-th and b-th rows on other roots of the argument `trades` of a call
\* that returned `out` are in one campaign.
OthersTogether(trades, out, a, b) ==
    \E x, y \in OtherPositions(trades) :
        /\ RankAmongOthers(trades, x) = a
        /\ RankAmongOthers(trades, y) = b
        /\ SameCampaign(out, x, y)

\* C18: no row on SPX or SPXW is in the frame the campaigns are assigned in or
\* in the returned frame, so none gets a campaign id; and when two calls get
\* frames that differ only in their SPX and SPXW rows, both return as many
\* rows, all with a campaign id, and any two trades on other roots are in one
\* campaign after the one call iff they are after the other.
C18_Exclusion ==
    /\ \A k \in 1..Len(camp_df) : camp_df[k].root_symbol \notin {<<"SPX">>, <<"SPXW">>}
    /\ \A k \in 1..Len(campaigns_df) :
          campaigns_df[k].root_symbol \notin {<<"SPX">>, <<"SPXW">>}
    /\ camp_pc = "done" /\ earlier_campaigns # <<>> =>
          LET before == earlier_campaigns[1]
              n == Len(OtherRoots(closed_trades_df))
          IN /\ Len(campaigns_df) = n
             /\ Len(before.campaigns) = n
             /\ \A k \in 1..n : campaigns_df[k].campaign_id # None
             /\ \A a, b \in 1..n :
                   OthersTogether(before.trades, before.campaigns, a, b)
                       <=> OthersTogether(closed_trades_df, campaigns_df, a, b)

\* Two calls have returned; the first frame had a cash-settled trade between
\* two trades of one root that went to different campaigns, the second frame
\* has no cash-settled trade.
C18_Witness ==
    /\ camp_pc = "done"
    /\ earlier_campaigns # <<>>
    /\ Len(earlier_campaigns[1].trades) = 3
    /\ OnIndexRoot(earlier_campaigns[1].trades) = <<FALSE, TRUE, FALSE>>
    /\ Len(closed_trades_df) = 2
    /\ closed_trades_df[1].root_symbol = closed_trades_df[2].root_symbol
    /\ ~SameCampaign(campaigns_df, 1, 2)
    /\ ~SameCampaign(earlier_campaigns[1].campaigns, 1, 3)

\* ------------------------------------------------------ strategy clusters
\* The rows of a returned frame that came from row k of the argument.
RowsFrom(df, k) == {r \in 1..Len(df) : df[r].index = k}

\* Row a of the frame is not after row b in (root_symbol, entry_date) order.
NotAfter(df, a, b) ==
    \/ SymbolRank(df[a].root_symbol) < SymbolRank(df[b].root_symbol)
    \/ /\ df[a].root_symbol = df[b].root_symbol
       /\ df[a].entry_date <= df[b].entry_date

\* C20: the returned frame holds every row of the argument once, each with a
\* strategy id, in (root symbol, entry timestamp) order; two rows next to each
\* other in it have the same strategy id iff they have the same root symbol
\* and their entries are at most time_threshold_seconds apart; and the rows of
\* one strategy id all have one root symbol.
C20_Clustering ==
    strat_pc = "done" =>
        /\ Len(strategies_df) = Len(legs_df)
        /\ \A k \in 1..Len(legs_df) :
              /\ Cardinality(RowsFrom(strategies_df, k)) = 1
              /\ \A r \in RowsFrom(strategies_df, k) :
                    /\ strategies_df[r].strategy_id # None
                    /\ strategies_df[r].root_symbol = legs_df[k].root_symbol
                    /\ strategies_df[r].entry_date = legs_df[k].entry_date
        /\ \A r \in 1..(Len(strategies_df) - 1) :
              /\ NotAfter(strategies_df, r, r + 1)
              /\ strategies_df[r].strategy_id = strategies_df[r + 1].strategy_id
                    <=> /\ strategies_df[r].root_symbol = strategies_df[r + 1].root_symbol
                        /\ Abs(strategies_df[r + 1].entry_date - strategies_df[r].entry_date)
                              <= time_threshold_seconds
        /\ \A a, b \in 1..Len(strategies_df) :
              strategies_df[a].strategy_id = strategies_df[b].strategy_id
                  => strategies_df[a].root_symbol = strategies_df[b].root_symbol

\* Four legs came back: two of one root entered exactly the threshold apart in
\* one cluster, a third of that root one second beyond the threshold later in
\* a cluster of its own, and a leg of another root entered with the first.
C20_Witness ==
    /\ strat_pc = "done"
    /\ Len(strategies_df) = 4
    /\ strategies_df[2].entry_date - strategies_df[1].entry_date = time_threshold_seconds
    /\ strategies_df[3].entry_date - strategies_df[2].entry_date = time_threshold_seconds + 1
    /\ strategies_df[1].strategy_id = strategies_df[2].strategy_id
    /\ strategies_df[2].strategy_id # strategies_df[3].strategy_id
    /\ strategies_df[3].root_symbol = strategies_df[1].root_symbol
    /\ strategies_df[4].root_symbol # strategies_df[1].root_symbol
    /\ strategies_df[4].entry_date = strategies_df[1].entry_date
    /\ strategies_df[4].strategy_id # strategies_df[1].strategy_id

\* ---------------------------------------------------------- matching steps
\* The magnitude of the first n lots of a queue together.
AbsTotal(lots, n) == SumSeq([k \in 1..n |-> Abs(lots[k].qty)])

\* How many lots of the queue an execution of quantity qty reaches: lot j is
\* reached when the lots before it do not use the execution up.
LotsReached(lots, qty) ==
    Cardinality({j \in 1..Len(lots) : AbsTotal(lots, j - 1) < Abs(qty)})

\* C24, the step: an execution that goes to the matching loop and reaches k
\* lots of its key's queue appends exactly k ClosedTrades, the j-th with the
\* key and the entry timestamp of the j-th lot and the close timestamp of the
\* execution; the lots it uses up are gone from the queue; the k-th lot, when
\* the execution ends inside it, is the head of the queue afterwards with what
\* is left of its quantity and nothing else changed, before the untouched lots.
C24_Step ==
    IsRowStep =>
        LET row == trades_df[i]
            qty == SignedQty(row)
            old == StepInventory
            new == StepInventoryAfter
            k == LotsReached(old, qty)
            untouched == SubSeq(old, k + 1, Len(old))
        IN ~OpensLot(old, qty) =>
              /\ Len(StepEvents) = k
              /\ closed_trades' =
                    closed_trades \o [j \in 1..k |-> StepEvents[j].trade]
              /\ \A j \in 1..k :
                    /\ StepEvents[j].lot = old[j]
                    /\ StepEvents[j].trade.asset_id = StepKey
                    /\ StepEvents[j].trade.entry_date = old[j].date
                    /\ StepEvents[j].trade.close_date = row.trade_date
              /\ IF k > 0 /\ AbsTotal(old, k) > Abs(qty)
                 THEN LET left == AbsTotal(old, k) - Abs(qty)
                      IN new = <<[old[k] EXCEPT
                                    !.qty = IF old[k].qty > 0 THEN left ELSE -left]>>
                               \o untouched
                 ELSE IF Abs(qty) > AbsTotal(old, Len(old))
                      THEN Len(new) = 1 /\ new[1].qty = qty + SumSeq([j \in 1..Len(old) |-> old[j].qty])
                      ELSE new = untouched

\* C24: one ClosedTrade per lot touched, in queue order; a lot used up is
\* removed and matching goes on, a lot partly used stays at the head, reduced,
\* and matching stops.
C24_OnePerLot == [][C24_Step]_vars

\* One execution has been matched against two lots opened at different times:
\* the first used up, the second partly, and still in the queue.
C24_Witness ==
    /\ pc = "rows"
    /\ Len(matches) = 2
    /\ matches[1].trade.close_date = matches[2].trade.close_date
    /\ matches[1].trade.entry_date < matches[2].trade.entry_date
    /\ matches[1].matched_q = matches[1].lot.qty
    /\ Abs(matches[2].matched_q) < Abs(matches[2].lot.qty)
    /\ \E e \in 1..Len(portfolio) :
          /\ portfolio[e].asset_id = matches[2].trade.asset_id
          /\ Len(portfolio[e].lots) = 1
          /\ portfolio[e].lots[1].date = matches[2].trade.entry_date

\* C26, the step: an execution of non-zero quantity that finds its key's queue
\* empty, or its head lot of the execution's sign, leaves the queue as it was
\* with one lot more at its tail, the lot of the execution; no ClosedTrade is
\* appended and no other key's queue changes.
C26_Step ==
    IsRowStep =>
        LET row == trades_df[i]
            qty == SignedQty(row)
            old == StepInventory
            new == StepInventoryAfter
        IN (qty # 0 /\ (old = <<>> \/ Head(old).qty * qty > 0)) =>
              /\ Len(new) = Len(old) + 1
              /\ SubSeq(new, 1, Len(old)) = old
              /\ new[Len(new)].qty = qty
              /\ new[Len(new)].price = row.price
              /\ new[Len(new)].date = row.trade_date
              /\ closed_trades' = closed_trades
              /\ matches' = matches
              /\ \A key \in Keys(caller_df) \ {StepKey} :
                    Inventory(portfolio', key) = Inventory(portfolio, key)

\* C26: a same-direction execution only opens a lot.
C26_OnlyOpens == [][C26_Step]_vars

\* Three executions have been processed and nothing was matched: one key holds
\* two lots in the order they were opened, another key holds one.
C26_Witness ==
    /\ pc = "rows"
    /\ i = 4
    /\ matches = <<>>
    /\ Len(portfolio) = 2
    /\ \E e \in 1..2 :
          /\ Len(portfolio[e].lots) = 2
          /\ portfolio[e].lots[1].date < portfolio[e].lots[2].date
          /\ portfolio[e].lots[1].qty # portfolio[e].lots[2].qty

\* ------------------------------------------------------------- reversals
\* Executions of the stock of one or three units on two dates, buys at 10 and
\* sells at 12, either with no commission and no multiplier or with
\* commission 3 and multiplier 100.
ReversalRows ==
    {Execution(AAPL, side, q, IF side = "BUY" THEN 10 ELSE 12, t[1], t[2], d, <<>>) :
        side \in {"BUY", "SELL"}, q \in {1, 3},
        t \in {<<0, NoNumber>>, <<3, <<100>>>>}, d \in 1..2}

InitReversal ==
    /\ sort_kind \in SortKinds
    /\ uuids = 0
    /\ DownloadIdle
    /\ CampaignIdle
    /\ StrategyIdle
    /\ earlier_call = <<>>
    /\ \E df \in Frames(ReversalRows, MaxReversalRows) : Entry(df, <<>>)

SpecReversal == InitReversal /\ [][Next]_vars

\* C25, the step: an execution of the sign opposite to its key's head lot and
\* larger than all the lots of the queue together leaves the queue with one
\* lot: its quantity is what the queue did not match, with the execution's
\* sign and so opposite to every lot there was, and its price, timestamp,
\* multiplier and per-unit commission are the execution's.
C25_Step ==
    IsRowStep =>
        LET row == trades_df[i]
            qty == SignedQty(row)
            old == StepInventory
            new == StepInventoryAfter
        IN (old # <<>> /\ Head(old).qty * qty < 0
                /\ Abs(qty) > AbsTotal(old, Len(old))) =>
              /\ Len(new) = 1
              /\ Abs(new[1].qty) = Abs(qty) - AbsTotal(old, Len(old))
              /\ new[1].qty * qty > 0
              /\ \A j \in 1..Len(old) : new[1].qty * old[j].qty < 0
              /\ new[1].price = row.price
              /\ new[1].date = row.trade_date
              /\ new[1].mult = Multiplier(row)
              /\ new[1].comm_per_unit = CommPerUnit(row.commission, qty, Scale)
              /\ new[1].nan = {}

\* C25: a full reversal leaves exactly one lot, the unmatched remainder, on
\* the execution's terms.
C25_FullReversal == [][C25_Step]_vars

\* A sale of three units with commission 3 and multiplier 100 has met two
\* lots of one unit bought without either: both are matched and the queue
\* holds one short lot of one unit, with per-unit commission 1 and
\* multiplier 100.
C25_Witness ==
    /\ pc = "rows"
    /\ i = 4
    /\ Len(matches) = 2
    /\ matches[1].exec_qty = -3 /\ matches[2].exec_qty = -3
    /\ matches[1].lot.mult = 1 /\ matches[2].lot.mult = 1
    /\ matches[1].lot.comm_per_unit = 0
    /\ Len(portfolio) = 1
    /\ Len(portfolio[1].lots) = 1
    /\ portfolio[1].lots[1].qty = -1
    /\ portfolio[1].lots[1].mult = 100
    /\ portfolio[1].lots[1].comm_per_unit = Scale
    /\ portfolio[1].lots[1].date = matches[2].trade.close_date

\* ------------------------------------------------------------ gross P&L
\* C27: for every match, in either branch, gross P&L is (exit price - entry
\* price of the lot) x matched quantity x multiplier of the lot x sign of the
\* lot; so when the lot and the closing execution carry no commission, a long
\* lot closed above its entry price and a short lot closed below it give a
\* positive net P&L.
C27_GrossDirection ==
    \A k \in 1..Len(matches) :
        LET e == matches[k]
            sign == IF e.lot.qty > 0 THEN 1 ELSE -1
        IN /\ e.gross_pnl = (e.exit_price - e.lot.price) * e.trade.quantity
                               * e.lot.mult * sign * Scale
           /\ (e.lot.comm_per_unit = 0 /\ e.exit_comm = 0) =>
                 /\ e.trade.net_pnl = e.gross_pnl
                 /\ (e.lot.qty > 0 /\ e.exit_price > e.lot.price) => e.trade.net_pnl > 0
                 /\ (e.lot.qty < 0 /\ e.exit_price < e.lot.price) => e.trade.net_pnl > 0

\* A short lot of two contracts sold at 12 with multiplier 100 has been partly
\* closed by a purchase of one at 10 that names no multiplier, neither with a
\* commission: the ClosedTrade has net P&L (12 - 10) x 1 x 100.
C27_Witness ==
    /\ pc = "done"
    /\ Len(matches) = 1
    /\ matches[1].lot.qty = -2
    /\ matches[1].matched_q = -1
    /\ matches[1].lot.mult = 100
    /\ matches[1].lot.price = 12
    /\ matches[1].exit_price = 10
    /\ \E k \in 1..Len(caller_df) :
          caller_df[k].buy_sell = "BUY" /\ caller_df[k].multiplier = NoNumber
    /\ closed_df[1].commission = 0
    /\ closed_df[1].net_pnl = 200 * Scale

\* --------------------------------------------------- calendar spreads
\* C30 (as claimed): in the returned frame a cluster of two legs is labelled
\* "Calendar/Diagonal Spread" only when both legs carry an expiry and the two
\* expiries differ.
C30_CalendarNeedsExpiries_Claimed ==
    strat_pc = "done" =>
        \A r \in 1..Len(strategies_df) :
            LET cluster == ClusterOf(strategies_df, strategies_df[r].strategy_id)
            IN (Len(cluster) = 2 /\ Labelled(cluster, "Calendar/Diagonal Spread")) =>
                  /\ cluster[1].expiry # None
                  /\ cluster[2].expiry # None
                  /\ cluster[1].expiry # cluster[2].expiry

\* =========================== StrategyEngine.aggregate_strategy_pnl
\* The keys of groupby(['strategy_id', 'root_symbol', 'strategy_type']).
SummaryKeys(df) ==
    {[strategy_id |-> df[k].strategy_id, root_symbol |-> df[k].root_symbol,
      strategy_type |-> df[k].strategy_type] : k \in 1..Len(df)}

\* The rows of one group, in frame order.
SummaryGroup(df, key) ==
    SelectIdx(df, [k \in 1..Len(df) |->
                      /\ df[k].strategy_id = key.strategy_id
                      /\ df[k].root_symbol = key.root_symbol
                      /\ df[k].strategy_type = key.strategy_type])

\* 'max' of a column of a group.
MaxOf(values) ==
    CHOOSE v \in {values[k] : k \in 1..Len(values)} :
        \A k \in 1..Len(values) : values[k] <= v

\* The close reasons of the model in the order sorted() puts them.
ReasonOrder == <<"Assigned", "Exercised", "Expired", "Trade">>

\* sorted(set([str(i) for i in x if i]))
SortedReasons(g) ==
    SelectIdx(ReasonOrder,
              [r \in 1..Len(ReasonOrder) |->
                  \E k \in 1..Len(g) : g[k].close_reason = ReasonOrder[r]])

\* ', '.join(words), as the sequence of its pieces.
RECURSIVE JoinComma(_)
JoinComma(words) ==
    IF words = <<>> THEN <<>>
    ELSE IF Len(words) = 1 THEN words
    ELSE <<Head(words), ", ">> \o JoinComma(Tail(words))

\* Mutant: the date of a group is the close of its first leg.
StrategyMetricsFirstClose(df, key) ==
    LET g == SummaryGroup(df, key)
    IN [strategy_id   |-> key.strategy_id,
        root_symbol   |-> key.root_symbol,
        strategy_type |-> key.strategy_type,
        date          |-> g[1].close_date,
        net_pnl       |-> SumSeq([k \in 1..Len(g) |-> g[k].net_pnl]),
        commission    |-> SumSeq([k \in 1..Len(g) |-> g[k].commission]),
        leg_count     |-> Len(g),
        close_reason  |-> JoinComma(SortedReasons(g))]

\* .agg(agg_rules) on one group, with the columns renamed       (lines 141-156)
StrategyMetrics(df, key) ==
    LET g == SummaryGroup(df, key)
    IN [strategy_id   |-> key.strategy_id,
        root_symbol   |-> key.root_symbol,
        strategy_type |-> key.strategy_type,
        date          |-> MaxOf([k \in 1..Len(g) |-> g[k].close_date]),
        net_pnl       |-> SumSeq([k \in 1..Len(g) |-> g[k].net_pnl]),
        commission    |-> SumSeq([k \in 1..Len(g) |-> g[k].commission]),
        leg_count     |-> Len(g),
        close_reason  |-> JoinComma(SortedReasons(g))]

\* metrics.sort_values(by='date', ascending=False): the groups come in the
\* order of their strategy ids, which are random strings, so rows of one date
\* may come out in any order.
DescendingByDate(rows) ==
    {m \in [1..Cardinality(rows) -> rows] :
        /\ \A a, b \in 1..Cardinality(rows) : a < b => m[a] # m[b] /\ m[a].date >= m[b].date}

\* A leg closed at close_date for net_pnl, with a commission and a reason.
ClosedLeg(leg, close_date, net_pnl, commission, close_reason) ==
    [leg EXCEPT !.close_date = close_date, !.net_pnl = net_pnl,
                !.commission = commission, !.close_reason = close_reason]

\* Call legs of one root entered at seconds 0 and 11, closed at second 30 by a
\* trade or at second 40 by assignment, with a gain of 2 and no commission or
\* a loss of 1 and commission 1; and a put of another root.
SummaryLegs ==
    {ClosedLeg(Leg("AAPL", OPT, Call, JAN, <<150>>, t), c[1], p[1], p[2], c[2]) :
        t \in {0, 11}, c \in {<<30, "Trade">>, <<40, "Assigned">>},
        p \in {<<2, 0>>, <<-1, 1>>}}
    \cup {ClosedLeg(Leg("MSFT", FOP, Put, JAN, <<300>>, 0), 30, 3, 1, "Expired")}

\* DataService.get_strategy_data(closed_df) is called.
InitSummary ==
    /\ sort_kind \in SortKinds
    /\ uuids = 0
    /\ DownloadIdle
    /\ FifoIdle
    /\ CampaignIdle
    /\ strat_pc = "call"
    /\ legs_df \in Frames(SummaryLegs, MaxSummaryLegs)
    /\ strat_df = <<>>
    /\ strat_i = 0
    /\ current_strategy_id = None
    /\ prev_row = <<>>
    /\ strategy_buffer = <<>>
    /\ strategies_df = <<>>
    /\ metrics = <<>>

\* if closed_df.empty: return pd.DataFrame()         (data_service.py line 90)
ReturnNoSummary ==
    /\ strat_pc = "call"
    /\ legs_df = <<>>
    /\ metrics' = <<>>
    /\ strat_pc' = "aggregated"
    /\ UNCHANGED <<legs_df, strat_df, strat_i, current_strategy_id, prev_row,
                   strategy_buffer, strategies_df, sort_kind, uuids, fifo_vars,
                   campaign_vars,
                   download_vars>>

\* return StrategyEngine.aggregate_strategy_pnl(grouped)   (lines 132-159)
AggregateStrategyPnl ==
    /\ strat_pc = "done"
    /\ legs_df # <<>>
    /\ metrics' \in DescendingByDate({StrategyMetrics(strategies_df, key) :
                                         key \in SummaryKeys(strategies_df)})
    /\ strat_pc' = "aggregated"
    /\ UNCHANGED <<legs_df, strat_df, strat_i, current_strategy_id, prev_row,
                   strategy_buffer, strategies_df, sort_kind, uuids, fifo_vars,
                   campaign_vars,
                   download_vars>>

NextSummary == NextStrategy \/ ReturnNoSummary \/ AggregateStrategyPnl

SpecSummary == InitSummary /\ [][NextSummary]_vars

\* The strategy ids of a grouped frame and the summary rows of one id.
StrategyIds(df) == {df[k].strategy_id : k \in 1..Len(df)}
SummaryRows(id) == {r \in 1..Len(metrics) : metrics[r].strategy_id = id}

\* C21: the summary has one row for every cluster and no other row; the row's
\* net P&L and commission are the sums over the legs of the cluster, its leg
\* count their number, its date the latest of their close timestamps, and its
\* close reason names each close reason of the legs once and no other; and
\* the net P&L of the summary rows adds up to that of the trades handed in.
C21_StrategySummary ==
    strat_pc = "aggregated" =>
        /\ Len(metrics) = Cardinality(StrategyIds(strategies_df))
        /\ \A id \in StrategyIds(strategies_df) :
              LET cluster == ClusterOf(strategies_df, id)
                  reasons == {cluster[k].close_reason : k \in 1..Len(cluster)}
              IN /\ Cardinality(SummaryRows(id)) = 1
                 /\ \A r \in SummaryRows(id) :
                       LET named == SelectIdx(metrics[r].close_reason,
                                       [k \in 1..Len(metrics[r].close_reason) |->
                                           metrics[r].close_reason[k] # ", "])
                       IN /\ metrics[r].net_pnl =
                                SumSeq([k \in 1..Len(cluster) |-> cluster[k].net_pnl])
                          /\ metrics[r].commission =
                                SumSeq([k \in 1..Len(cluster) |-> cluster[k].commission])
                          /\ metrics[r].leg_count = Len(cluster)
                          /\ \E k \in 1..Len(cluster) :
                                metrics[r].date = cluster[k].close_date
                          /\ \A k \in 1..Len(cluster) :
                                cluster[k].close_date <= metrics[r].date
                          /\ {named[k] : k \in 1..Len(named)} = reasons
                          /\ Len(named) = Cardinality(reasons)
        /\ SumSeq([r \in 1..Len(metrics) |-> metrics[r].net_pnl])
              = SumSeq([k \in 1..Len(legs_df) |-> legs_df[k].net_pnl])

\* Three trades have been summarised in two rows: a cluster of two legs, one
\* closed at second 40 by assignment with a loss and the other at second 30
\* by a trade with a gain, gives date 40, net P&L 1, commission 1, two legs
\* and both reasons; the third trade is a row of its own.
C21_Witness ==
    /\ strat_pc = "aggregated"
    /\ Len(legs_df) = 3
    /\ Len(metrics) = 2
    /\ \E r \in 1..2 :
          /\ metrics[r].leg_count = 2
          /\ metrics[r].date = 40
          /\ metrics[r].net_pnl = 1
          /\ metrics[r].commission = 1
          /\ metrics[r].close_reason = <<"Assigned", ", ", "Trade">>
          /\ strategies_df[1].close_date = 40
          /\ strategies_df[2].close_date = 30

\* ========================= CampaignEngine.aggregate_campaign_stats
\* Money is in whole dollars, time in hours; a quotient of two floats is the
\* exact fraction.
\* r.get('close_price', 0)
ClosePrice(r) == IF "close_price" \in DOMAIN r THEN r.close_price ELSE 0

\* val of one pass of the loop of estimate_capital               (lines 96-103)
LegValue(r) ==
    LET qty == Abs(r.quantity)
    IN IF r.strike # NoNumber /\ r.strike[1] > 0
       THEN r.strike[1] * 100 * qty
       ELSE IF Contains(Str(r.asset_class), STK)
            THEN LET price == ClosePrice(r)
                 IN (IF price = 0 /\ r.net_pnl # 0 THEN 100 ELSE price) * qty
            ELSE 0

\* estimate_capital(rows)                                        (lines 90-105)
estimate_capital(rows) ==
    LET max_cap == MaxOf(<<0>> \o [k \in 1..Len(rows) |-> LegValue(rows[k])])
    IN IF max_cap > 0 THEN max_cap ELSE 1

MinOf(values) ==
    CHOOSE v \in {values[k] : k \in 1..Len(values)} :
        \A k \in 1..Len(values) : v <= values[k]

\* Mutant: a span under one day is not raised to one day.
DurationHoursNoFloor(start_date, end_date) == end_date - start_date

\* duration_days, in hours: (end - start) / 1 day, 1 when under 1
\* (lines 111-112)
DurationHours(start_date, end_date) ==
    IF end_date - start_date < 24 THEN 24 ELSE end_date - start_date

\* round(duration_days, 1), in tenths of a day: to the nearest tenth, a half
\* to the even one.
RoundTenths(hours) ==
    LET q == (hours * 10) \div 24
        r == (hours * 10) % 24
    IN IF 2 * r < 24 THEN q
       ELSE IF 2 * r > 24 THEN q + 1
       ELSE IF q % 2 = 0 THEN q ELSE q + 1

\* The dict appended to stats for one campaign                  (lines 108-131)
CampaignStatsRow(df, camp_id) ==
    LET g == SelectIdx(df, [k \in 1..Len(df) |-> df[k].campaign_id = camp_id])
        start_date == MinOf([k \in 1..Len(g) |-> g[k].entry_date])
        end_date == MaxOf([k \in 1..Len(g) |-> g[k].close_date])
        duration == DurationHours(start_date, end_date)
        total_pnl == SumSeq([k \in 1..Len(g) |-> g[k].net_pnl])
        capital == estimate_capital(g)
    IN [campaign_id    |-> camp_id,
        root_symbol    |-> g[1].root_symbol,
        start_date     |-> start_date,
        end_date       |-> end_date,
        duration_days  |-> RoundTenths(duration),
        trades_count   |-> Len(g),
        total_pnl      |-> total_pnl,
        capital_est    |-> capital,
        roi_abs        |-> Frac(total_pnl * 100, capital),
        roi_annualized |-> Frac(total_pnl * 365 * 24 * 100, capital * duration)]

\* stats_df.sort_values(by='end_date', ascending=False): campaigns that end
\* together may come out in any order.
DescendingByEnd(rows) ==
    {Permute(rows, order) : order \in
        {o \in [1..Len(rows) -> 1..Len(rows)] :
            \A a, b \in 1..Len(rows) :
                a < b => o[a] # o[b] /\ rows[o[a]].end_date >= rows[o[b]].end_date}}

\* A closed trade of `quantity` units of an instrument, with its net P&L.
StatsRow(row, asset_class, strike, lot_mult, quantity, net_pnl) ==
    [row EXCEPT !.asset_class = asset_class, !.strike = strike,
                !.lot_mult = lot_mult, !.quantity = quantity, !.net_pnl = net_pnl]

\* Closed trades for the statistics: two of an equity option (strike 150,
\* multiplier 100), one assigned at hour 0 and one traded from hour 2 to 3;
\* two of 100 shares entered at hour 72, one closed at hour 97 with a gain and
\* one at once with none; a future option (strike 5000, multiplier 50) and a
\* future of another root; and a trade of a cash-settled index option.
StatsRows ==
    {StatsRow(ClosedTradeRow("AAPL", 0, 0, "Assigned"), OPT, <<150>>, 100, 1, 300),
     StatsRow(ClosedTradeRow("AAPL", 2, 3, "Trade"), OPT, <<150>>, 100, 2, -100),
     StatsRow(ClosedTradeRow("AAPL", 72, 97, "Trade"), STK, NoNumber, 1, 100, 500),
     StatsRow(ClosedTradeRow("AAPL", 72, 72, "Trade"), STK, NoNumber, 1, 100, 0),
     StatsRow(ClosedTradeRow("ES", 0, 0, "Expired"), FOP, <<5000>>, 50, 1, 250),
     StatsRow(ClosedTradeRow("ES", 0, 30, "Trade"), FUT, NoNumber, 50, 1, 200),
     StatsRow(ClosedTradeRow("SPX", 0, 0, "Expired"), OPT, <<4000>>, 100, 1, 100)}

\* DataService.get_campaign_data(closed_df) is called.
InitStats ==
    /\ sort_kind \in SortKinds
    /\ uuids = 0
    /\ DownloadIdle
    /\ FifoIdle
    /\ camp_pc = "call"
    /\ closed_trades_df \in Frames(StatsRows, MaxStatsTrades)
    /\ camp_df = <<>>
    /\ group_keys = <<>>
    /\ group = <<>>
    /\ pos = 0
    /\ current_camp_id = None
    /\ camp_end = 0
    /\ camp_end_reason = ""
    /\ campaigns_df = <<>>
    /\ earlier_campaigns = <<>>
    /\ stats_ids = {}
    /\ stats = <<>>
    /\ stats_df = <<>>
    /\ StrategyIdle

\* if closed_df.empty: return pd.DataFrame()         (data_service.py line 96)
ReturnNoCampaignData ==
    /\ camp_pc = "call"
    /\ closed_trades_df = <<>>
    /\ stats_df' = <<>>
    /\ camp_pc' = "reported"
    /\ UNCHANGED <<closed_trades_df, camp_df, group_keys, group, pos,
                   current_camp_id, camp_end, camp_end_reason, campaigns_df,
                   earlier_campaigns, stats_ids, stats, sort_kind, uuids,
                   fifo_vars, strategy_vars,
                   download_vars>>

\* if 'campaign_id' not in df_with_campaigns.columns or
\* df_with_campaigns.empty: return pd.DataFrame()                (lines 87-88)
ReturnNoStats ==
    /\ camp_pc = "done"
    /\ campaigns_df = <<>>
    /\ stats_df' = <<>>
    /\ camp_pc' = "reported"
    /\ UNCHANGED <<closed_trades_df, camp_df, group_keys, group, pos,
                   current_camp_id, camp_end, camp_end_reason, campaigns_df,
                   earlier_campaigns, stats_ids, stats, sort_kind, uuids,
                   fifo_vars, strategy_vars,
                   download_vars>>

\* stats = []; df_with_campaigns.groupby('campaign_id')       (lines 107-108)
GroupByCampaign ==
    /\ camp_pc = "done"
    /\ campaigns_df # <<>>
    /\ stats_ids' = {campaigns_df[k].campaign_id : k \in 1..Len(campaigns_df)}
    /\ stats' = <<>>
    /\ camp_pc' = "stats"
    /\ UNCHANGED <<closed_trades_df, camp_df, group_keys, group, pos,
                   current_camp_id, camp_end, camp_end_reason, campaigns_df,
                   earlier_campaigns, stats_df, sort_kind, uuids,
                   fifo_vars, strategy_vars,
                   download_vars>>

\* One pass of `for camp_id, group in ...`: the ids are random strings, so
\* the campaigns come in any order.                            (lines 108-131)
AppendCampaignStats ==
    /\ camp_pc = "stats"
    /\ \E camp_id \in stats_ids :
          /\ stats' = Append(stats, CampaignStatsRow(campaigns_df, camp_id))
          /\ stats_ids' = stats_ids \ {camp_id}
    /\ UNCHANGED <<camp_pc, closed_trades_df, camp_df, group_keys, group, pos,
                   current_camp_id, camp_end, camp_end_reason, campaigns_df,
                   earlier_campaigns, stats_df, sort_kind, uuids,
                   fifo_vars, strategy_vars,
                   download_vars>>

\* stats_df = pd.DataFrame(stats), sorted; return stats_df     (lines 133-137)
ReturnStats ==
    /\ camp_pc = "stats"
    /\ stats_ids = {}
    /\ stats_df' \in DescendingByEnd(stats)
    /\ camp_pc' = "reported"
    /\ UNCHANGED <<closed_trades_df, camp_df, group_keys, group, pos,
                   current_camp_id, camp_end, camp_end_reason, campaigns_df,
                   earlier_campaigns, stats_ids, stats, sort_kind, uuids,
                   fifo_vars, strategy_vars,
                   download_vars>>

NextStats ==
    \/ NextCampaign
    \/ ReturnNoCampaignData
    \/ ReturnNoStats
    \/ GroupByCampaign
    \/ AppendCampaignStats
    \/ ReturnStats

SpecStats == InitStats /\ [][NextStats]_vars

\* The campaign ids of a frame with campaigns, the trades of one campaign and
\* the rows of the statistics for it.
CampaignIds(df) == {df[k].campaign_id : k \in 1..Len(df)}
TradesIn(df, id) == SelectIdx(df, [k \in 1..Len(df) |-> df[k].campaign_id = id])
StatsRowsOf(id) == {r \in 1..Len(stats_df) : stats_df[r].campaign_id = id}

\* C22: the statistics have one row for every campaign, with start the
\* earliest entry and end the latest close of its trades; with span the time
\* from start to end, or one day if that is less, the row's ROI is 100 x total
\* net P&L / capital estimate and its annualized ROI that x 365 days / span;
\* and the capital estimate is above zero.
C22_CampaignMetrics ==
    (camp_pc = "reported" /\ campaigns_df # <<>>) =>
        /\ Len(stats_df) = Cardinality(CampaignIds(campaigns_df))
        /\ \A id \in CampaignIds(campaigns_df) :
              LET trades == TradesIn(campaigns_df, id)
                  total == SumSeq([k \in 1..Len(trades) |-> trades[k].net_pnl])
              IN /\ Cardinality(StatsRowsOf(id)) = 1
                 /\ \A r \in StatsRowsOf(id) :
                       LET row == stats_df[r]
                           span == IF row.end_date - row.start_date > Days(1)
                                   THEN row.end_date - row.start_date
                                   ELSE Days(1)
                       IN /\ \E k \in 1..Len(trades) : trades[k].entry_date = row.start_date
                          /\ \A k \in 1..Len(trades) : trades[k].entry_date >= row.start_date
                          /\ \E k \in 1..Len(trades) : trades[k].close_date = row.end_date
                          /\ \A k \in 1..Len(trades) : trades[k].close_date <= row.end_date
                          /\ row.capital_est > 0
                          /\ row.roi_abs = Frac(100 * total, row.capital_est)
                          /\ row.roi_annualized =
                                Frac(100 * total * Days(365), row.capital_est * span)

\* Statistics of two campaigns are out: one of a single trade opened and
\* closed in the same hour, with a gain, whose span counts as one day; and one
\* whose trades span 25 hours, with ROI 5 % and annualized ROI
\* 5 x 365 x 24 / 25 = 1752 %.
C22_Witness ==
    /\ camp_pc = "reported"
    /\ Len(stats_df) = 2
    /\ \E a, b \in 1..2 :
          /\ stats_df[a].end_date = stats_df[a].start_date
          /\ stats_df[a].total_pnl > 0
          /\ stats_df[a].duration_days = 10
          /\ stats_df[a].roi_annualized = Frac(stats_df[a].roi_abs[1] * 365,
                                               stats_df[a].roi_abs[2])
          /\ stats_df[b].end_date - stats_df[b].start_date = 25
          /\ stats_df[b].total_pnl = 500
          /\ stats_df[b].capital_est = 10000
          /\ stats_df[b].roi_abs = <<5, 1>>
          /\ stats_df[b].roi_annualized = <<1752, 1>>

\* The notional of one leg as the claim has it: strike x multiplier of the
\* leg x |quantity| for an option or future option; for another leg price x
\* |quantity|, and 100 x |quantity| when the price is zero or not there and
\* the P&L is not zero.
ClaimedNotional(r) ==
    IF r.asset_class \in {OPT, FOP}
    THEN r.strike[1] * r.lot_mult * Abs(r.quantity)
    ELSE IF ClosePrice(r) = 0 /\ r.net_pnl # 0
         THEN 100 * Abs(r.quantity)
         ELSE ClosePrice(r) * Abs(r.quantity)

\* C23 (as claimed): the capital estimate of a campaign is the largest of the
\* notionals of its legs (stated for the campaigns where that is above zero).
C23_CapitalEstimate_Claimed ==
    camp_pc = "reported" =>
        \A r \in 1..Len(stats_df) :
            LET trades == TradesIn(campaigns_df, stats_df[r].campaign_id)
                largest == MaxOf([k \in 1..Len(trades) |-> ClaimedNotional(trades[k])])
            IN largest > 0 => stats_df[r].capital_est = largest

\* ================================ legs without instrument metadata
\* Closed trades whose rows carry no asset class, right, expiry or strike,
\* entered on AAPL at seconds 0, 5 and 21 and on MSFT at second 0, and one
\* option leg.
BareLegs ==
    {Leg("AAPL", None, None, None, NoNumber, t) : t \in {0, 5, 21}}
    \cup {Leg("MSFT", None, None, None, NoNumber, 0),
          Leg("AAPL", OPT, Call, JAN, <<150>>, 0)}

InitBare ==
    /\ sort_kind = "stable"
    /\ uuids = 0
    /\ DownloadIdle
    /\ FifoIdle
    /\ CampaignIdle
    /\ strat_pc = "call"
    /\ legs_df \in Frames(BareLegs, MaxBareLegs)
    /\ strat_df = <<>>
    /\ strat_i = 0
    /\ current_strategy_id = None
    /\ prev_row = <<>>
    /\ strategy_buffer = <<>>
    /\ strategies_df = <<>>
    /\ metrics = <<>>

SpecBare == InitBare /\ [][NextStrategy]_vars

\* The rows of the cluster carry no instrument metadata.
NoMetadata(cluster) ==
    \A k \in 1..Len(cluster) :
        /\ cluster[k].asset_class = None
        /\ cluster[k].put_call = None
        /\ cluster[k].expiry = None
        /\ cluster[k].strike = NoNumber

\* C31 (as claimed): in the returned frame a cluster of two or more legs whose
\* rows carry no instrument metadata is labelled "Multi-Leg (Unknown)".
C31_UnknownFallback_Claimed ==
    strat_pc = "done" =>
        \A r \in 1..Len(strategies_df) :
            LET cluster == ClusterOf(strategies_df, strategies_df[r].strategy_id)
            IN (Len(cluster) >= 2 /\ NoMetadata(cluster))
                  => Labelled(cluster, "Multi-Leg (Unknown)")

\* --------------------------------------------------- vertical spreads
\* C32 (as claimed): in the returned frame a cluster labelled "Vertical
\* Spread" has two legs of one expiry and one right with different strikes;
\* two closed trades of one contract and one entry time (one lot closed in
\* two parts) are two legs with the same strike.
C32_VerticalDistinctStrikes_Claimed ==
    strat_pc = "done" =>
        \A r \in 1..Len(strategies_df) :
            LET cluster == ClusterOf(strategies_df, strategies_df[r].strategy_id)
            IN Labelled(cluster, "Vertical Spread") =>
                  /\ Len(cluster) = 2
                  /\ cluster[1].expiry # None
                  /\ SameExpiry(cluster)
                  /\ cluster[1].put_call # None
                  /\ SameRight(cluster)
                  /\ cluster[1].strike # cluster[2].strike

\* ------------------------------------------------------- whole close codes
\* C33 (as claimed): a ClosedTrade is given the close reason Assigned or
\* Exercised only when the code list of its closing execution holds the
\* assignment or the exercise code itself, and Expired only when the list
\* holds the expiration code or an option is closed at price 0.
C33_Step ==
    IsRowStep =>
        \A k \in 1..Len(StepEvents) :
            LET row == trades_df[i]
                codes == CodeList(row.code, <<>>)
                close_reason == StepEvents[k].trade.close_reason
            IN /\ close_reason = "Assigned" => CodeA \in codes
               /\ close_reason = "Exercised" => CodeEx \in codes
               /\ close_reason = "Expired" =>
                     \/ CodeEp \in codes
                     \/ row.asset_class = OPT /\ row.price = 0

C33_WholeCodes_Claimed == [][C33_Step]_vars

\* ===================================== PnLEngine: symbols with a space
\* A symbol, a root and an asset key are texts given as the words between
\* their spaces: the stock "BRK B" is the two words BRK and B.
BRK_B == [symbol |-> <<"BRK", "B">>, underlying |-> None, asset_class |-> STK,
          expiry |-> None, strike |-> NoNumber, put_call |-> None]

\* One unit of the stock AAPL, of the stock BRK B or of the AAPL call bought
\* or sold at 10 on two dates.
SpaceRows ==
    {Execution(inst, side, 1, 10, 0, NoNumber, d, <<>>) :
        inst \in {AAPL, BRK_B, AAPL_C150}, side \in {"BUY", "SELL"}, d \in 1..2}

InitSpace ==
    /\ sort_kind \in SortKinds
    /\ uuids = 0
    /\ DownloadIdle
    /\ CampaignIdle
    /\ StrategyIdle
    /\ earlier_call = <<>>
    /\ \E df \in Frames(SpaceRows, MaxSpaceRows) : Entry(df, <<>>)

SpecSpace == InitSpace /\ [][Next]_vars

\* C34 (as claimed): every OpenPosition returned carries the root symbol
\* (underlying if present, else symbol) of the executions of its AssetKey,
\* which is the root symbol the ClosedTrades of that key carry.
C34_OpenRoot_Claimed ==
    pc = "done" =>
        \A p \in 1..Len(open_df) :
            /\ \A k \in 1..Len(trades_df) :
                  generate_asset_key(trades_df[k]) = open_df[p].asset_id
                      => open_df[p].root_symbol = RootSymbol(trades_df[k])
            /\ \A t \in 1..Len(closed_trades) :
                  closed_trades[t].asset_id = open_df[p].asset_id
                      => open_df[p].root_symbol = closed_trades[t].root_symbol

\* =============================== IBKRFlexClient.download_report
max_retries == 10
\* Fewest characters of a text that is taken for a report (line 99).
MinReportLength == 50

\* The outcome of one requests.get, by what download_report looks at:
\*   raised      the call raised (no response)
\*   status      the HTTP status of the response
\*   in_progress b"1019" in content and b"Statement generation in progress"
\*               in content
\*   error_code  <<>> when the content lacks <ErrorCode> or <ErrorMessage>,
\*               else <<code>>, the text of the ErrorCode element
\*   text        response.text, as <<name, length>>
HttpResponse(raised, status, in_progress, error_code, text) ==
    [raised |-> raised, status |-> status, in_progress |-> in_progress,
     error_code |-> error_code, text |-> text]

\* What the service and the network give: no connection; the statement is
\* still being generated (error 1019); the token has expired (1012) or too
\* many requests were made (1018); a server error page; a statement of 50 or
\* 51 characters; a text of 49 characters; an empty body.
ConnectionFailed == HttpResponse(TRUE, 0, FALSE, <<>>, <<"", 0>>)
GenerationInProgress == HttpResponse(FALSE, 200, TRUE, <<"1019">>, <<"in progress", 300>>)
ServerError == HttpResponse(FALSE, 500, FALSE, <<>>, <<"error page", 200>>)

Responses ==
    {ConnectionFailed, GenerationInProgress, ServerError}
    \cup {HttpResponse(FALSE, 200, FALSE, <<code>>, <<"error " \o code, 250>>) :
            code \in {"1012", "1018"}}
    \cup {HttpResponse(FALSE, 200, FALSE, <<>>, <<"statement", n>>) :
            n \in {0, 49, 50, 51}}

\* len(response.text)
TextLength(text) == text[2]

\* Mutant: a text of exactly the least length is taken as too short.
TooShortAtLeast(text) == TextLength(text) <= MinReportLength

\* if len(response.text) < 50                                    (line 99)
TooShort(text) == TextLength(text) < MinReportLength

\* response.raise_for_status() raises for a 4xx or 5xx status.
RaisesForStatus(r) == r.status >= 400

\* One pass of the try block (lines 76-108): what it does with outcome r of
\* requests.get.  "retry": the pass ends in time.sleep(3) and the loop goes
\* on; "return": the function returns value.
TryDownload(r) ==
    IF r.raised THEN [does |-> "retry", value |-> None]
    ELSE IF r.in_progress THEN [does |-> "retry", value |-> None]
    ELSE IF r.error_code # <<>> /\ r.error_code # <<"1019">>
         THEN [does |-> "return", value |-> None]
    ELSE IF RaisesForStatus(r) THEN [does |-> "retry", value |-> None]
    ELSE IF TooShort(r.text) THEN [does |-> "return", value |-> None]
    ELSE [does |-> "return", value |-> r.text]

InitDownload ==
    /\ sort_kind = "stable"
    /\ uuids = 0
    /\ FifoIdle
    /\ CampaignIdle
    /\ StrategyIdle
    /\ dl_pc = "request"
    /\ attempt = 0
    /\ gets = 0
    /\ response = <<>>
    /\ report = None

\* One pass of `for attempt in range(max_retries)` up to its sleep or its
\* return                                                     (lines 75-108)
Attempt ==
    /\ dl_pc = "request"
    /\ attempt < max_retries
    /\ \E r \in Responses :
          LET pass == TryDownload(r)
          IN /\ response' = <<r>>
             /\ gets' = gets + 1
             /\ IF pass.does = "retry"
                THEN dl_pc' = "sleep" /\ UNCHANGED report
                ELSE dl_pc' = "done" /\ report' = pass.value
    /\ UNCHANGED <<attempt, sort_kind, uuids, fifo_vars, campaign_vars,
                   strategy_vars>>

\* time.sleep(3) is over and the loop takes its next value (lines 83-84, 108)
Sleep ==
    /\ dl_pc = "sleep"
    /\ attempt' = attempt + 1
    /\ dl_pc' = "request"
    /\ UNCHANGED <<gets, response, report, sort_kind, uuids, fifo_vars,
                   campaign_vars, strategy_vars>>

\* The loop is exhausted: return None                         (lines 110-111)
MaxRetriesExceeded ==
    /\ dl_pc = "request"
    /\ attempt = max_retries
    /\ report' = None
    /\ dl_pc' = "done"
    /\ UNCHANGED <<attempt, gets, response, sort_kind, uuids, fifo_vars,
                   campaign_vars, strategy_vars>>

NextDownload == Attempt \/ Sleep \/ MaxRetriesExceeded

\* Every requests.get comes back or raises, and a sleep ends.
SpecDownload == InitDownload /\ [][NextDownload]_vars /\ WF_vars(NextDownload)

\* ------------------------------------------------ the download properties
\* The response was taken without an exception and without an error code,
\* and has at least 50 characters.
SuccessfulReport(r) ==
    /\ ~r.raised
    /\ r.status = 200
    /\ r.error_code = <<>>
    /\ TextLength(r.text) >= 50

\* The response says that the statement is still being generated, or the
\* attempt failed (no response, or an HTTP error status).
RetryCause(r) == r.in_progress \/ r.raised \/ r.status >= 400

\* The response was taken without an exception and without an error code,
\* and has fewer than 50 characters.
ShortText(r) ==
    /\ ~r.raised
    /\ r.status = 200
    /\ r.error_code = <<>>
    /\ TextLength(r.text) < 50

\* The response carries an error code other than 1019.
OtherErrorCode(r) == r.error_code # <<>> /\ r.error_code # <<"1019">>

C35_Bounded ==
    /\ gets <= 10
    /\ dl_pc = "done" =>
          \/ report = None /\ gets = 10 /\ RetryCause(response[1])
          \/ report = None /\ OtherErrorCode(response[1])
          \/ report = None /\ ShortText(response[1])
          \/ SuccessfulReport(response[1]) /\ report = response[1].text

C35_Step ==
    /\ \* a further attempt follows only a 1019 response or a failed attempt
       (gets' = gets + 1 /\ gets > 0) => RetryCause(response[1])
    /\ \* another error code ends the call with None
       (gets' = gets + 1 /\ OtherErrorCode(response'[1]))
           => dl_pc' = "done" /\ report' = None
    /\ \* the first successful response of at least 50 characters is returned
       (gets' = gets + 1 /\ SuccessfulReport(response'[1]))
           => dl_pc' = "done" /\ report' = response'[1].text
    /\ \* after 10 attempts no other is made and None is returned
       (gets = 10 /\ dl_pc # "done" /\ dl_pc' = "done") => report' = None
    /\ \* a call that has returned makes no attempt
       dl_pc = "done" => gets' = gets

\* C35: download_report makes at most 10 HTTP attempts and returns; it makes
\* a further attempt only after a response that the statement is being
\* generated (1019) or after a failed attempt; a response with another error
\* code ends the call with None; the first successful response of at least
\* 50 characters ends it with that response's text; and when all 10 attempts
\* are used up it returns None.
C35_BoundedRetry ==
    /\ [](C35_Bounded)
    /\ [][C35_Step]_vars
    /\ <>(dl_pc = "done")

\* C35 witness: the call has returned the text of a statement of exactly 50
\* characters, received at the tenth attempt after nine retries.
C35_Witness ==
    /\ dl_pc = "done"
    /\ gets = 10
    /\ attempt = 9
    /\ response[1].text = <<"statement", 50>>
    /\ report = <<"statement", 50>>

\* ------------------------------------------------- entry before close
\* Every ClosedTrade of a match takes its entry timestamp from the lot and
\* its close timestamp from the closing execution.
C36_Step ==
    IsRowStep =>
        \A k \in 1..Len(StepEvents) :
            /\ StepEvents[k].trade.entry_date = StepEvents[k].lot.date
            /\ StepEvents[k].trade.close_date = trades_df[i].trade_date

C36_EntryNotLater ==
    /\ \A k \in 1..Len(matches) :
          matches[k].trade.entry_date <= matches[k].trade.close_date
    /\ NonDecreasing([k \in 1..Len(matches) |-> matches[k].trade.close_date])

\* C36: for every ClosedTrade produced by a match the entry timestamp, taken
\* from the matched lot, is not later than the close timestamp, taken from
\* the closing execution, whatever the order of the executions in the frame;
\* and the ClosedTrades of the matches are emitted in non-decreasing order of
\* their close timestamps.
C36_EntryBeforeClose == [](C36_EntryNotLater) /\ [][C36_Step]_vars

\* C36 witness: the frame came with a later execution before an earlier one,
\* the call has returned, and the ClosedTrade of the match was entered at
\* hour 1 and closed at hour 2.
C36_Witness ==
    /\ pc = "done"
    /\ Len(caller_df) >= 2
    /\ caller_df[1].trade_date > caller_df[2].trade_date
    /\ Len(matches) = 1
    /\ matches[1].lot.date = 1
    /\ closed_df[1].entry_date = 1
    /\ closed_df[1].close_date = 2

\* ================================================ PnLEngine: key isolation
\* Executions of the stock and of the call: on the stock two buys at hour 1,
\* of one and of two units, and a sale of two units at hour 2; on the call a
\* buy at hour 1 and a sale at hour 2.
IsolationRows ==
    {Execution(AAPL, "BUY", q, 10, 0, NoNumber, 1, <<>>) : q \in Magnitudes}
    \cup {Execution(AAPL, "SELL", 2, 12, 0, NoNumber, 2, <<>>),
          Execution(AAPL_C150, "BUY", 1, 10, 0, NoNumber, 1, <<>>),
          Execution(AAPL_C150, "SELL", 1, 12, 0, NoNumber, 2, <<>>)}

InitIsolation ==
    /\ sort_kind \in SortKinds
    /\ uuids = 0
    /\ DownloadIdle
    /\ CampaignIdle
    /\ StrategyIdle
    /\ earlier_call = <<>>
    /\ \E df \in Frames(IsolationRows, MaxIsolationRows) : Entry(df, <<>>)

SpecIsolation == InitIsolation /\ [][Next]_vars

\* A pass of the loop leaves the inventories of the other keys as they were,
\* matches lots of its own key's inventory, and files the ClosedTrades under
\* its own key.
C37_Step ==
    IsRowStep =>
        /\ \A e \in 1..Len(portfolio) :
              portfolio[e].asset_id # StepKey
                  => Inventory(portfolio', portfolio[e].asset_id) = portfolio[e].lots
        /\ \A k \in 1..Len(StepEvents) :
              /\ StepEvents[k].trade.asset_id = StepKey
              /\ \E j \in 1..Len(Inventory(portfolio, StepKey)) :
                    StepEvents[k].lot = Inventory(portfolio, StepKey)[j]

\* What the call returns for a key is what a call on the key's executions
\* alone returns.  The call on the key's executions alone sorts another
\* frame, whose tied rows the build's quicksort may order either way.
C37_SameAlone ==
    pc = "done" =>
        \A key \in Keys(caller_df) :
            LET own == RowsOf(caller_df, key)
            IN \A kind \in (IF own = caller_df THEN {sort_kind} ELSE SortKinds) :
                  LET alone == calculate_fifo_pnl(own, <<>>, kind)
                  IN /\ TradesOf(closed_df, key) = alone.closed
                     /\ PositionsOf(open_df, key) = alone.open

\* C37 (as claimed): an execution reads and changes only the inventory of its
\* own AssetKey, every ClosedTrade pairs a lot and a closing execution of one
\* AssetKey, and the ClosedTrades and the OpenPosition of a key are the same
\* whether or not executions of other keys are interleaved in the frame.
C37_KeyIsolation_Claimed == [](C37_SameAlone) /\ [][C37_Step]_vars

\* ------------------------------------------------ commission conservation
\* Sums of one key, in units of 1/Scale: the commission allocated to its
\* ClosedTrades, the entry commission its resident lots still carry, and the
\* commissions of its executions processed so far.
AllocatedCommission(key) ==
    LET t == TradesOf(closed_trades, key)
    IN SumSeq([k \in 1..Len(t) |-> t[k].commission])

CarriedCommission(key) ==
    LET lots == Inventory(portfolio, key)
    IN SumSeq([k \in 1..Len(lots) |-> Abs(lots[k].qty) * lots[k].comm_per_unit])

ExecutionCommission(key) ==
    LET rows == RowsOf(RowsDone, key)
    IN SumSeq([k \in 1..Len(rows) |-> rows[k].commission * Scale])

\* C38: commission conservation.  At every point of the matching, for a key
\* whose executions so far all have a quantity other than 0, the commission
\* allocated to the key's ClosedTrades and the entry commission carried by its
\* resident lots add up to the commissions of its executions: the allocated
\* sum never exceeds the total, and equals it when the inventory is empty.
C38_CommissionConserved ==
    pc \in {"rows", "done"} =>
        \A key \in Keys(RowsDone) :
            (\A k \in 1..Len(RowsDone) :
                generate_asset_key(RowsDone[k]) = key => RowsDone[k].quantity # 0)
            => /\ AllocatedCommission(key) + CarriedCommission(key)
                     = ExecutionCommission(key)
               /\ AllocatedCommission(key) <= ExecutionCommission(key)
               /\ Inventory(portfolio, key) = <<>>
                     => AllocatedCommission(key) = ExecutionCommission(key)

\* C38 witness: two units bought and two units sold, each execution with a
\* commission of 1; the call has returned one ClosedTrade of quantity 2 with
\* commission 2 and the inventory is empty.
C38_Witness ==
    /\ pc = "done"
    /\ Len(trades_df) = 2
    /\ trades_df[1].commission = 1
    /\ trades_df[2].commission = 1
    /\ trades_df[1].quantity = 2
    /\ Len(closed_df) = 1
    /\ closed_df[1].quantity = 2
    /\ closed_df[1].commission = 2 * Scale
    /\ portfolio[1].lots = <<>>

\* ============================================= the campaign partition
\* Closed trades of AAPL entered at hour 0 (closed on entry by a trade or by
\* assignment), at hour 3 and on day 3, one trade of MSFT and one of SPX.
PartitionRows ==
    {ClosedTradeRow("AAPL", 0, 0, "Trade"), ClosedTradeRow("AAPL", 0, 0, "Assigned"),
     ClosedTradeRow("AAPL", 3, 3, "Trade"), ClosedTradeRow("AAPL", 72, 72, "Trade"),
     ClosedTradeRow("MSFT", 0, 0, "Trade"), ClosedTradeRow("SPX", 0, 0, "Trade")}

InitPartition ==
    /\ sort_kind \in SortKinds
    /\ uuids = 0
    /\ DownloadIdle
    /\ FifoIdle
    /\ camp_pc = "call"
    /\ closed_trades_df \in Frames(PartitionRows, MaxPartitionTrades)
    /\ camp_df = <<>>
    /\ group_keys = <<>>
    /\ group = <<>>
    /\ pos = 0
    /\ current_camp_id = None
    /\ camp_end = 0
    /\ camp_end_reason = ""
    /\ campaigns_df = <<>>
    /\ earlier_campaigns = <<>>
    /\ stats_ids = {}
    /\ stats = <<>>
    /\ stats_df = <<>>
    /\ StrategyIdle

\* The caller calls identify_campaigns once more with the same frame.  The
\* call that has returned is remembered in earlier_campaigns.
RepeatCampaigns ==
    /\ camp_pc = "done"
    /\ earlier_campaigns = <<>>
    /\ earlier_campaigns' = <<[trades |-> closed_trades_df, campaigns |-> campaigns_df]>>
    /\ camp_pc' = "call"
    /\ camp_df' = <<>>
    /\ group_keys' = <<>>
    /\ group' = <<>>
    /\ pos' = 0
    /\ current_camp_id' = None
    /\ camp_end' = 0
    /\ camp_end_reason' = ""
    /\ UNCHANGED <<closed_trades_df, campaigns_df, stats_ids, stats, stats_df,
                   sort_kind, uuids, fifo_vars, strategy_vars, download_vars>>

NextPartition == NextCampaign \/ RepeatCampaigns

SpecPartition == InitPartition /\ [][NextPartition]_vars

\* The index labels of a frame's rows.
Labels(df) == {df[k].index : k \in 1..Len(df)}

\* The returned frame holds every trade of the argument that is not on SPX or
\* SPXW once, with a campaign id; the trades of a campaign are on one root;
\* and a trade entered between two trades of a campaign, on their root, is in
\* that campaign.
C39_Partition ==
    camp_pc = "done" =>
        LET out == campaigns_df
            kept == Filtered(closed_trades_df)
        IN /\ Len(out) = Len(kept)
           /\ Labels(out) = Labels(kept)
           /\ \A k \in 1..Len(out) :
                 /\ out[k].campaign_id # None
                 /\ out[k].root_symbol = closed_trades_df[out[k].index].root_symbol
                 /\ out[k].entry_date = closed_trades_df[out[k].index].entry_date
           /\ \A a, b \in 1..Len(out) :
                 out[a].campaign_id = out[b].campaign_id
                     => out[a].root_symbol = out[b].root_symbol
           /\ \A a, b, c \in 1..Len(out) :
                 (/\ out[a].campaign_id = out[c].campaign_id
                  /\ out[b].root_symbol = out[a].root_symbol
                  /\ out[a].entry_date <= out[b].entry_date
                  /\ out[b].entry_date <= out[c].entry_date)
                     => out[b].campaign_id = out[a].campaign_id

\* The second of two calls on one frame returns the same rows as the first,
\* and two trades are in one campaign after it iff they were after the first.
C39_SamePartition ==
    camp_pc = "done" /\ earlier_campaigns # <<>> =>
        LET before == earlier_campaigns[1].campaigns
        IN /\ Len(campaigns_df) = Len(before)
           /\ \A k \in 1..Len(before) : campaigns_df[k].index = before[k].index
           /\ \A a, b \in Labels(before) :
                 SameCampaign(before, a, b) <=> SameCampaign(campaigns_df, a, b)

\* The id a new campaign takes is carried by no trade of this call or of the
\* call before it.
C39_Step ==
    current_camp_id' # current_camp_id /\ current_camp_id' # None =>
        /\ \A k \in 1..Len(camp_df) : camp_df[k].campaign_id # current_camp_id'
        /\ earlier_campaigns # <<>> =>
              \A k \in 1..Len(earlier_campaigns[1].campaigns) :
                  earlier_campaigns[1].campaigns[k].campaign_id # current_camp_id'

\* C39: identify_campaigns gives every closed trade that is not excluded
\* exactly one campaign id; the trades of a campaign have one root symbol;
\* within a root symbol a campaign is a run of trades next to each other in
\* entry order; different campaigns have different ids; and two calls on the
\* same frame give the same partition of the trades, the ids aside.
C39_CampaignPartition ==
    [](C39_Partition) /\ [](C39_SamePartition) /\ [][C39_Step]_vars

\* C39 witness: the second call on a frame of three trades has returned: the
\* AAPL trades of hour 0 and of day 3 are in different campaigns, the SPX
\* trade between them is not in the frame returned, and the ids differ from
\* those of the first call.
C39_Witness ==
    /\ camp_pc = "done"
    /\ earlier_campaigns # <<>>
    /\ Len(closed_trades_df) = 3
    /\ closed_trades_df[2].root_symbol = <<"SPX">>
    /\ Len(campaigns_df) = 2
    /\ campaigns_df[1].root_symbol = <<"AAPL">>
    /\ campaigns_df[2].root_symbol = <<"AAPL">>
    /\ ~SameCampaign(campaigns_df, 1, 3)
    /\ campaigns_df[1].campaign_id # earlier_campaigns[1].campaigns[1].campaign_id

\* ------------------------------------------------- overlapping trades
\* Trade b of the frame is entered while trade a is open: not before a's
\* entry and not after a's close.
EnteredDuring(df, a, b) ==
    /\ df[a].entry_date <= df[b].entry_date
    /\ df[b].entry_date <= df[a].close_date

\* C40: overlap implies same campaign.  In the returned frame two trades of
\* one root symbol of which one is entered no later than the other's close
\* (and no earlier than its entry) carry the same campaign id, whatever their
\* close reasons and whatever other trades the frame holds.
C40_OverlapSameCampaign ==
    camp_pc = "done" =>
        \A a, b \in 1..Len(campaigns_df) :
            (/\ campaigns_df[a].root_symbol = campaigns_df[b].root_symbol
             /\ EnteredDuring(campaigns_df, a, b))
                => campaigns_df[a].campaign_id = campaigns_df[b].campaign_id

\* C40 witness: three trades of AAPL closed by trades: one entered and closed
\* at hour 0, one held from hour 0 to hour 3 and one entered at hour 3, more
\* than 2 h after the first one's close; the last is in the campaign of the
\* trade it overlaps.
C40_Witness ==
    /\ camp_pc = "done"
    /\ Len(campaigns_df) = 3
    /\ \A k \in 1..3 : campaigns_df[k].close_reason = "Trade"
    /\ campaigns_df[1].entry_date = 0 /\ campaigns_df[1].close_date = 0
    /\ campaigns_df[2].entry_date = 0 /\ campaigns_df[2].close_date = 3
    /\ campaigns_df[3].entry_date = 3
    /\ EnteredDuring(campaigns_df, 2, 3)
    /\ campaigns_df[3].campaign_id = campaigns_df[2].campaign_id
    /\ campaigns_df[3].campaign_id = campaigns_df[1].campaign_id

================================================================================
